---- MODULE Spec2Model ----
(***************************************************************************)
(* The NOAA buoy wind scripts of civil-utils, as one state machine.        *)
(*                                                                         *)
(* Five scripts share one pipeline (loop over the years, fetch one year,   *)
(* route the payload, parse the text, fold the rows, print the report):    *)
(*   "percentile"  src/avg-wind-speeds/index.js  lines 1-186               *)
(*   "mean"        src/avg-wind-speeds/index.js  lines 188-368             *)
(*   "stream"      src/unnamed/part_000          lines 1-181               *)
(*   "ppercentile" src/unnamed/part_000          lines 183-375             *)
(*   "maxgust"     src/unnamed/part_001                                    *)
(* The variable `variant` says which script is running.                    *)
(*                                                                         *)
(* Numbers.  A JavaScript number is a record [k, v]: k = "num" with the    *)
(* integer v, k = "nan", or k = "-inf".  The input tokens of the model     *)
(* hold no fraction, so every parsed value is an integer; a quotient is    *)
(* kept exact as the pair [num, den] and rounded only by toFixed.          *)
(* Arithmetic is exact: binary floating point rounding is not modelled.    *)
(***************************************************************************)
EXTENDS Integers, Sequences, FiniteSets, Bags, TLC

-----------------------------------------------------------------------------
(* Bounds of the model *)

\* years of the range that are fetched (the scripts fetch 2015..2024)
NumYears == 2
\* lines of the archive's files, over the whole run
MaxLines == 3
\* gusts in the list handed to the percentile report of SpecReport
MaxGusts == 7
\* months tried by SpecSeason lie in -MonthSpan .. MonthSpan + 12
MonthSpan == 24

(* Program constants *)

FirstYear == 2015
MaxSpeed == 90
MaxDirection == 360
MinColumns == 8
StatusOk == 200
GzipMagic0 == 31
GzipMagic1 == 139
DefaultRange == 30
DefaultRangeParam == 15
DefaultPercentile == 1

LastYear == FirstYear + NumYears - 1
Years == FirstYear .. LastYear
Seasons == <<"Winter", "Spring", "Summer", "Fall">>
SeasonNames == {"Winter", "Spring", "Summer", "Fall"}

-----------------------------------------------------------------------------
(* JavaScript numbers *)

Num(n) == [k |-> "num", v |-> n]
NaN == [k |-> "nan", v |-> 0]
NegInf == [k |-> "-inf", v |-> 0]

isNaN(x) == x.k = "nan"

\* a > b
JsGt(a, b) ==
    IF a.k = "nan" \/ b.k = "nan" THEN FALSE
    ELSE IF a.k = "-inf" THEN FALSE
    ELSE IF b.k = "-inf" THEN TRUE
    ELSE a.v > b.v

\* a < b
JsLt(a, b) == JsGt(b, a)

\* a >= b
JsGe(a, b) ==
    IF a.k = "nan" \/ b.k = "nan" THEN FALSE
    ELSE IF b.k = "-inf" THEN TRUE
    ELSE IF a.k = "-inf" THEN FALSE
    ELSE a.v >= b.v

\* a <= b
JsLe(a, b) == JsGe(b, a)

\* a + b and a - b on finite numbers and NaN
JsAdd(a, b) == IF a.k = "num" /\ b.k = "num" THEN Num(a.v + b.v) ELSE NaN
JsSub(a, b) == IF a.k = "num" /\ b.k = "num" THEN Num(a.v - b.v) ELSE NaN

\* x || d : a number is falsy when it is 0 or NaN
JsOr(x, d) == IF x.k = "nan" \/ (x.k = "num" /\ x.v = 0) THEN d ELSE x

-----------------------------------------------------------------------------
(* Tokens: a token is a sequence of one-character strings *)

DigitChars == {"0", "1", "2", "3", "4", "5", "6", "7", "8", "9"}

DigitVal(c) ==
    CASE c = "0" -> 0 [] c = "1" -> 1 [] c = "2" -> 2 [] c = "3" -> 3
      [] c = "4" -> 4 [] c = "5" -> 5 [] c = "6" -> 6 [] c = "7" -> 7
      [] c = "8" -> 8 [] c = "9" -> 9

RECURSIVE ScanDigits(_, _, _)
\* the run of digits of tok from position i: how many, and their value
ScanDigits(tok, i, acc) ==
    IF i <= Len(tok) /\ tok[i] \in DigitChars
    THEN ScanDigits(tok, i + 1,
                    [n |-> acc.n + 1, v |-> acc.v * 10 + DigitVal(tok[i])])
    ELSE acc

\* an optional sign and the longest run of digits after it; NaN without a digit
SignedDigits(tok) ==
    LET signed == Len(tok) >= 1 /\ tok[1] \in {"-", "+"}
        d == ScanDigits(tok, IF signed THEN 2 ELSE 1, [n |-> 0, v |-> 0])
    IN  IF d.n = 0 THEN NaN
        ELSE Num(IF signed /\ tok[1] = "-" THEN 0 - d.v ELSE d.v)

\* parseFloat(token), on tokens without a fraction or an exponent
parseFloat(tok) == SignedDigits(tok)

\* parseInt(token, 10)
parseInt(tok) == SignedDigits(tok)

RECURSIVE Digits(_)
\* the decimal digits of a natural number, as a token
Digits(n) ==
    IF n < 10 THEN <<CHOOSE c \in DigitChars : DigitVal(c) = n>>
    ELSE Digits(n \div 10) \o Digits(n % 10)

\* process.argv[i] when the argument is not given: String(undefined)
Undefined == <<"u", "n", "d", "e", "f", "i", "n", "e", "d">>

-----------------------------------------------------------------------------
(* Season classifier *)

\* a faulty getSeason: December falls into Fall
getSeason_WinterFall(month) ==
    IF month.k = "num" /\ month.v \in {1, 2} THEN "Winter"
    ELSE IF month.k = "num" /\ month.v \in {3, 4, 5} THEN "Spring"
    ELSE IF month.k = "num" /\ month.v \in {6, 7, 8} THEN "Summer"
    ELSE IF month.k = "num" /\ month.v \in {9, 10, 11, 12} THEN "Fall"
    ELSE "Unknown"

getSeason(month) ==
    IF month.k = "num" /\ month.v \in {12, 1, 2} THEN "Winter"
    ELSE IF month.k = "num" /\ month.v \in {3, 4, 5} THEN "Spring"
    ELSE IF month.k = "num" /\ month.v \in {6, 7, 8} THEN "Summer"
    ELSE IF month.k = "num" /\ month.v \in {9, 10, 11} THEN "Fall"
    ELSE "Unknown"

-----------------------------------------------------------------------------
(* State *)

VARIABLES
    variant,          \* which script runs
    pool,             \* the name of the pool of lines the archive's files are made of
    fetchDirection,   \* parseFloat(process.argv[..])
    directionRange,   \* parseFloat(process.argv[..]) || default
    percentileValue,  \* parseFloat(process.argv[..]) || 1
    year,             \* main's loop variable
    pc,               \* "start", "loop", "await", "done", "failed", "crashed"
    resp,             \* the response of the fetch in flight
    seasonalData,     \* year -> season -> record (a function on the years set up)
    validGusts,       \* the percentile scripts' master array
    out,              \* what was printed, in order
    report,           \* main's locals at the report
    audit,            \* ghost: bag of the values a valid row handed to the fold
    route,            \* ghost: what was done with the last response
    served,           \* ghost: the lines the archive has sent so far
    probe             \* input and output of a pure function (SpecSeason)

vars == <<variant, pool, fetchDirection, directionRange, percentileValue, year,
          pc, resp, seasonalData, validGusts, out, report, audit, route,
          served, probe>>

PercentileVariants == {"percentile", "ppercentile"}
MeanVariants == {"mean", "stream"}
BufferedVariants == {"percentile", "ppercentile", "mean", "maxgust"}
Variants == {"percentile", "ppercentile", "mean", "stream", "maxgust"}

NoResp == [kind |-> "none"]
NoReport == [kind |-> "none"]
NoRoute == [how |-> "none", skipped |-> 0, dropped |-> 0]
NoProbe == [op |-> "none"]

-----------------------------------------------------------------------------
(* Accumulators *)

initSeasonRecordMean ==
    [WSPD_sum |-> 0, WSPD_count |-> 0, GST_sum |-> 0, GST_count |-> 0]

\* a faulty initSeasonRecord: the maximum starts at 0, not at -Infinity
initSeasonRecordMax_Zero == [gstMax |-> Num(0), dirSum |-> 0, dirCount |-> 0]

initSeasonRecordMax == [gstMax |-> NegInf, dirSum |-> 0, dirCount |-> 0]

\* seasonalData[year] = { Winter: ..., Spring: ..., Summer: ..., Fall: ... }
NewYear(rec) == [s \in SeasonNames |-> rec]

\* if (!seasonalData[year]) seasonalData[year] = {...}
EnsureYear(sd, y, rec) ==
    IF y \in DOMAIN sd THEN sd ELSE (y :> NewYear(rec)) @@ sd

\* one value that went into an accumulator of bucket (y, s)
Fold(y, s, f, v) == SetToBag({[y |-> y, s |-> s, f |-> f, v |-> v]})

\* the running state of a parse: the accumulators, whether a TypeError was
\* thrown, and the ghosts: the values folded, the lines skipped (empty,
\* comment, too short) and the rows dropped by the validation
ParseState(sd, vg, au) ==
    [sd |-> sd, vg |-> vg, au |-> au, thrown |-> FALSE, skipped |-> 0, dropped |-> 0]

\* continue, for a line that is no row
Skip(st) == [st EXCEPT !.skipped = @ + 1]

\* continue, for a row that fails the validation
Drop(st) == [st EXCEPT !.dropped = @ + 1]

-----------------------------------------------------------------------------
(* Record parser *)

\* a faulty test: comment lines are not skipped
SkipLine_NoComment(line) == line = <<>>

\* !line || line.startsWith("#")
SkipLine(line) == line = <<>> \/ line[1][1] = "#"

\* isNaN(x) || x < 0 || x > max
OutOfRange(x, max) == isNaN(x) \/ JsLt(x, Num(0)) \/ JsGt(x, Num(max))

\* a faulty isDirectionInRange: the ends of the arc are left out
isDirectionInRange_Strict(wdir, target, tolerance) ==
    /\ JsGt(wdir, JsSub(target, tolerance))
    /\ JsLt(wdir, JsAdd(target, tolerance))

isDirectionInRange(wdir, target, tolerance) ==
    /\ JsGe(wdir, JsSub(target, tolerance))
    /\ JsLe(wdir, JsAdd(target, tolerance))


\* the percentile scripts' rule for one row
ValidPercentileRow(wdir, gst) ==
    ~OutOfRange(wdir, MaxDirection) /\ ~OutOfRange(gst, MaxSpeed)

\* one line of the percentile scripts' parseFileAsText
ParseLinePercentile(st, line) ==
    IF SkipLine(line) THEN Skip(st)
    ELSE IF Len(line) < MinColumns THEN Skip(st)
    ELSE LET wdir == parseFloat(line[6])
             gst == parseFloat(line[8])
         IN  IF ~ValidPercentileRow(wdir, gst) THEN Drop(st)
             ELSE IF isDirectionInRange(wdir, fetchDirection, directionRange)
                  THEN [st EXCEPT !.vg = Append(@, gst.v),
                                  !.au = @ (+) Fold(0, "-", "wdir", wdir)
                                           (+) Fold(0, "-", "gst", gst)]
                  ELSE [st EXCEPT !.au = @ (+) Fold(0, "-", "wdir", wdir)]

\* a faulty rule: the upper limit of 90 is not tested
ValidMeanRow_NoUpper(wspd, gst) ==
    ~(isNaN(wspd) \/ isNaN(gst) \/ JsLt(wspd, Num(0)) \/ JsLt(gst, Num(0)))

\* the seasonal-mean scripts' rule for one row
ValidMeanRow(wspd, gst) ==
    ~(\/ isNaN(wspd) \/ isNaN(gst)
      \/ JsGt(wspd, Num(MaxSpeed)) \/ JsGt(gst, Num(MaxSpeed))
      \/ JsLt(wspd, Num(0)) \/ JsLt(gst, Num(0)))

\* a faulty fold: the gust is added and not counted
AddMean_GustNotCounted(st, y, season, wspd, gst) ==
    IF season \notin SeasonNames THEN [st EXCEPT !.thrown = TRUE]
    ELSE [st EXCEPT !.sd[y][season] =
                        [WSPD_sum |-> @.WSPD_sum + wspd.v,
                         WSPD_count |-> @.WSPD_count + 1,
                         GST_sum |-> @.GST_sum + gst.v,
                         GST_count |-> @.GST_count],
                    !.au = @ (+) Fold(y, season, "wspd", wspd)
                             (+) Fold(y, season, "gst", gst)]

\* record.WSPD_sum += wspd; record.WSPD_count += 1; record.GST_sum += gst; ...
AddMean(st, y, season, wspd, gst) ==
    IF season \notin SeasonNames THEN [st EXCEPT !.thrown = TRUE]
    ELSE [st EXCEPT !.sd[y][season] =
                        [WSPD_sum |-> @.WSPD_sum + wspd.v,
                         WSPD_count |-> @.WSPD_count + 1,
                         GST_sum |-> @.GST_sum + gst.v,
                         GST_count |-> @.GST_count + 1],
                    !.au = @ (+) Fold(y, season, "wspd", wspd)
                             (+) Fold(y, season, "gst", gst)]

\* a faulty parse: a row whose gust is rejected still counts its wind speed
ParseLineMean_Partial(st, line, y) ==
    IF SkipLine(line) THEN Skip(st)
    ELSE IF Len(line) < MinColumns THEN Skip(st)
    ELSE LET month == parseInt(line[2])
             wspd == parseFloat(line[7])
             gst == parseFloat(line[8])
         IN  IF ValidMeanRow(wspd, gst)
             THEN AddMean(st, y, getSeason(month), wspd, gst)
             ELSE IF ValidMeanRow(wspd, wspd) /\ getSeason(month) \in SeasonNames
             THEN [Drop(st) EXCEPT !.sd[y][getSeason(month)].WSPD_sum = @ + wspd.v,
                                   !.sd[y][getSeason(month)].WSPD_count = @ + 1]
             ELSE Drop(st)

\* one line of the seasonal-mean parseFileAsText (the year is set up before)
ParseLineMean(st, line, y) ==
    IF SkipLine(line) THEN Skip(st)
    ELSE IF Len(line) < MinColumns THEN Skip(st)
    ELSE LET month == parseInt(line[2])
             wspd == parseFloat(line[7])
             gst == parseFloat(line[8])
         IN  IF ~ValidMeanRow(wspd, gst) THEN Drop(st)
             ELSE AddMean(st, y, getSeason(month), wspd, gst)

\* one line of the streaming script: the year is set up at its first valid row
ParseLineStream(st, line, y) ==
    IF SkipLine(line) THEN Skip(st)
    ELSE IF Len(line) < MinColumns THEN Skip(st)
    ELSE LET month == parseInt(line[2])
             wspd == parseFloat(line[7])
             gst == parseFloat(line[8])
         IN  IF ~ValidMeanRow(wspd, gst) THEN Drop(st)
             ELSE AddMean([st EXCEPT !.sd = EnsureYear(@, y, initSeasonRecordMean)],
                          y, getSeason(month), wspd, gst)

\* the max-gust script's rule for one row
ValidMaxRow(wdir, gst) ==
    ~(OutOfRange(gst, MaxSpeed) \/ OutOfRange(wdir, MaxDirection))


\* if (gst > record.gstMax) record.gstMax = gst
MaxOf(gst, gstMax) == IF JsGt(gst, gstMax) THEN gst ELSE gstMax

\* one line of the max-gust parseFileAsText
ParseLineMax(st, line, y) ==
    IF SkipLine(line) THEN Skip(st)
    ELSE IF Len(line) < MinColumns THEN Skip(st)
    ELSE LET month == parseInt(line[2])
             wdir == parseFloat(line[6])
             gst == parseFloat(line[8])
             season == getSeason(month)
         IN  IF ~ValidMaxRow(wdir, gst) THEN Drop(st)
             ELSE IF season \notin SeasonNames THEN [st EXCEPT !.thrown = TRUE]
             ELSE [st EXCEPT !.sd[y][season] =
                                 [gstMax |-> MaxOf(gst, @.gstMax),
                                  dirSum |-> @.dirSum + wdir.v,
                                  dirCount |-> @.dirCount + 1],
                             !.au = @ (+) Fold(y, season, "gst", gst)
                                      (+) Fold(y, season, "wdir", wdir)]

ParseLine(v, st, line, y) ==
    CASE v \in PercentileVariants -> ParseLinePercentile(st, line)
      [] v = "mean" -> ParseLineMean(st, line, y)
      [] v = "stream" -> ParseLineStream(st, line, y)
      [] v = "maxgust" -> ParseLineMax(st, line, y)

RECURSIVE ParseLines(_, _, _, _, _)
\* for (const line of lines) ...; a thrown TypeError ends the loop
ParseLines(v, st, lines, i, y) ==
    IF i > Len(lines) \/ st.thrown THEN st
    ELSE ParseLines(v, ParseLine(v, st, lines[i], y), lines, i + 1, y)

\* parseFileAsText(fileText, year, seasonalData), and the streaming script's
\* gunzip "end" handler
parseFileAsText(v, st, lines, y) ==
    LET st0 == CASE v = "mean" ->
                      [st EXCEPT !.sd = EnsureYear(@, y, initSeasonRecordMean)]
                 [] v = "maxgust" ->
                      [st EXCEPT !.sd = EnsureYear(@, y, initSeasonRecordMax)]
                 [] OTHER -> st
    IN  ParseLines(v, st0, lines, 1, y)

-----------------------------------------------------------------------------
(* Payloads and responses *)

\* what zlib makes of a payload: the text, or an error
Inflated(t) == [ok |-> TRUE, text |-> t]
GzFailure == [ok |-> FALSE, text |-> <<>>]

\* what toString() makes of bytes that are no text: one line of one token
Garbage == << << <<"?">> >> >>

\* a payload: its bytes, what gunzip yields, and what toString() yields
GzipBody(t) ==
    [bytes |-> <<GzipMagic0, GzipMagic1, 8>> \o [i \in 1 .. 17 |-> 0],
     inflated |-> Inflated(t), text |-> Garbage]

\* a plain text payload: its bytes are its characters (here: one "2" a line)
PlainBody(t) ==
    [bytes |-> [i \in 1 .. 3 * Len(t) |-> 50], inflated |-> GzFailure, text |-> t]

\* the two signature bytes and nothing else
MagicOnlyBody ==
    [bytes |-> <<GzipMagic0, GzipMagic1>>, inflated |-> GzFailure, text |-> Garbage]

\* the signature followed by bytes that do not inflate
CorruptBody ==
    [bytes |-> <<GzipMagic0, GzipMagic1, 0, 0>>, inflated |-> GzFailure,
     text |-> Garbage]

\* an HTML error page
HtmlBody ==
    [bytes |-> <<60, 104, 116, 109, 108, 62>>, inflated |-> GzFailure,
     text |-> << << <<"<", "h", "t", "m", "l", ">">> >> >>]

TransportError == [kind |-> "error"]
Response(status, body) == [kind |-> "response", status |-> status, body |-> body]

\* the payloads that hold no line of the archive's files
OtherBodies == {MagicOnlyBody, CorruptBody, HtmlBody}

\* an answer with the text t: gzipped with status 200; a text of at most
\* one line also plain, and gzipped with status 404
TextResponses(t) ==
    IF Len(t) > 1 THEN {Response(StatusOk, GzipBody(t))}
    ELSE {Response(StatusOk, GzipBody(t)), Response(StatusOk, PlainBody(t)),
          Response(404, GzipBody(t))}

\* the other answers: no connection, a payload that is no text, a 404 page
OtherResponses ==
    {TransportError, Response(404, HtmlBody)}
      \cup {Response(StatusOk, b) : b \in OtherBodies}

-----------------------------------------------------------------------------
(* Source fetcher *)


\* body.length > 2 && body[0] === 0x1f && body[1] === 0x8b
IsGzip(body) ==
    /\ Len(body.bytes) > 2
    /\ body.bytes[1] = GzipMagic0
    /\ body.bytes[2] = GzipMagic1

\* how fetchAndProcessYear's promise ends: "resolved", "rejected", or "thrown"
\* when a handler threw outside the promise
Settled(how, st, printed, routed) ==
    [settled |-> how, st |-> st, printed |-> printed,
     route |-> [how |-> routed, skipped |-> st.skipped, dropped |-> st.dropped]]

Parsed(st, routed) ==
    Settled(IF st.thrown THEN "thrown" ELSE "resolved", st, <<>>, routed)

SkipNotice(y, status) == [t |-> "skip", year |-> y, status |-> status]


\* fetchAndProcessYear of the scripts that buffer the payload
FetchBuffered(v, st, r, y) ==
    IF r.kind = "error" THEN Settled("rejected", st, <<>>, "error")
    ELSE IF r.status # StatusOk
         THEN Settled("resolved", st, <<SkipNotice(y, r.status)>>, "skipped")
    ELSE IF IsGzip(r.body)
         THEN IF ~r.body.inflated.ok
              THEN Settled("rejected", st, <<>>, "gunzip-failed")
              ELSE Parsed(parseFileAsText(v, st, r.body.inflated.text, y), "gunzip")
         ELSE Parsed(parseFileAsText(v, st, r.body.text, y), "text")

\* fetchAndProcessYear of the streaming script: res.pipe(gunzip), whatever
\* the status and the payload
FetchStream(st, r, y) ==
    IF r.kind = "error" THEN Settled("rejected", st, <<>>, "error")
    ELSE IF ~r.body.inflated.ok
         THEN Settled("rejected", st, <<>>, "gunzip-failed")
         ELSE Parsed(parseFileAsText("stream", st, r.body.inflated.text, y), "gunzip")

fetchAndProcessYear(v, st, r, y) ==
    IF v = "stream" THEN FetchStream(st, r, y) ELSE FetchBuffered(v, st, r, y)

-----------------------------------------------------------------------------
(* Reporter: quotients and their printed form *)

Null == [k |-> "null"]
Frac(n, d) == [k |-> "frac", num |-> n, den |-> d]
NA == [k |-> "N/A"]

RECURSIVE Pow10(_)
Pow10(d) == IF d = 0 THEN 1 ELSE 10 * Pow10(d - 1)

\* what (x / 0).toFixed(d) prints
NaNText == [k |-> "NaN"]

\* q.toFixed(d) of a quotient that is not negative: the number of 10^-d units,
\* rounded to the nearest; a division by 0 prints as NaN
toFixed(q, d) ==
    IF q.den = 0 THEN NaNText
    ELSE [k |-> "fixed", d |-> d,
          n |-> (2 * q.num * Pow10(d) + q.den) \div (2 * q.den)]

\* count > 0 ? sum / count : null
AvgOrNull(sum, count) == IF count > 0 THEN Frac(sum, count) ELSE Null

\* a quotient is truthy when it is neither null nor 0
Truthy(q) == q # Null /\ q.num # 0

RECURSIVE Ascending(_)
\* Object.keys(seasonalData) in ascending order
Ascending(S) ==
    IF S = {} THEN <<>>
    ELSE LET m == CHOOSE x \in S : \A z \in S : x <= z
         IN  <<m>> \o Ascending(S \ {m})

(* Reporter of the seasonal-mean scripts *)

\* x?.toFixed(2) ?? "N/A" in index.js; x ? x.toFixed(2) : "N/A" in part_000
MeanCell(v, q) ==
    IF v = "stream"
    THEN IF Truthy(q) THEN toFixed(q, 2) ELSE NA
    ELSE IF q = Null THEN NA ELSE toFixed(q, 2)

MeanRow(v, y, rec) ==
    [t |-> "row", year |-> y,
     cells |-> [s \in SeasonNames |->
                  [WSPD |-> MeanCell(v, AvgOrNull(rec[s].WSPD_sum, rec[s].WSPD_count)),
                   GST |-> MeanCell(v, AvgOrNull(rec[s].GST_sum, rec[s].GST_count))]]]

\* a faulty rollup: the totals take each year's mean, once a year
AddMeanTotals_OfMeans(totals, rec) ==
    [s \in SeasonNames |->
       IF rec[s].WSPD_count > 0 /\ rec[s].GST_count > 0
       THEN [WSPD_sum |-> totals[s].WSPD_sum + rec[s].WSPD_sum \div rec[s].WSPD_count,
             WSPD_count |-> totals[s].WSPD_count + 1,
             GST_sum |-> totals[s].GST_sum + rec[s].GST_sum \div rec[s].GST_count,
             GST_count |-> totals[s].GST_count + 1]
       ELSE totals[s]]

\* if (wspdAvg !== null && gstAvg !== null) multiYearTotals[season] += ...
AddMeanTotals(totals, rec) ==
    [s \in SeasonNames |->
       IF rec[s].WSPD_count > 0 /\ rec[s].GST_count > 0
       THEN [WSPD_sum |-> totals[s].WSPD_sum + rec[s].WSPD_sum,
             WSPD_count |-> totals[s].WSPD_count + rec[s].WSPD_count,
             GST_sum |-> totals[s].GST_sum + rec[s].GST_sum,
             GST_count |-> totals[s].GST_count + rec[s].GST_count]
       ELSE totals[s]]

RECURSIVE MeanTotals(_, _, _, _)
MeanTotals(sd, ys, i, totals) ==
    IF i > Len(ys) THEN totals
    ELSE MeanTotals(sd, ys, i + 1, AddMeanTotals(totals, sd[ys[i]]))

MeanMulti(totals) ==
    [t |-> "multi",
     cells |-> [s \in SeasonNames |->
                  [WSPD |-> IF totals[s].WSPD_count > 0
                            THEN toFixed(Frac(totals[s].WSPD_sum, totals[s].WSPD_count), 2)
                            ELSE NA,
                   GST |-> IF totals[s].GST_count > 0
                           THEN toFixed(Frac(totals[s].GST_sum, totals[s].GST_count), 2)
                           ELSE NA]]]

\* main of the seasonal-mean scripts after the loop: what it prints, and
\* multiYearTotals
MeanReport(v, sd) ==
    LET ys == Ascending(DOMAIN sd)
        totals == MeanTotals(sd, ys, 1, NewYear(initSeasonRecordMean))
    IN  [printed |-> <<[t |-> "per-year"]>>
                       \o [i \in 1 .. Len(ys) |-> MeanRow(v, ys[i], sd[ys[i]])]
                       \o <<[t |-> "multi-year"], MeanMulti(totals)>>,
         locals |-> [kind |-> "mean", totals |-> totals]]

(* Reporter of the max-gust script *)

\* gstMax === Number.NEGATIVE_INFINITY ? null : gstMax
GstVal(gstMax) == IF gstMax = NegInf THEN Null ELSE Frac(gstMax.v, 1)

MaxRow(y, rec) ==
    [t |-> "row", year |-> y,
     cells |-> [s \in SeasonNames |->
                  [GST |-> IF GstVal(rec[s].gstMax) = Null THEN NA
                           ELSE toFixed(GstVal(rec[s].gstMax), 2),
                   DIR |-> IF AvgOrNull(rec[s].dirSum, rec[s].dirCount) = Null THEN NA
                           ELSE toFixed(AvgOrNull(rec[s].dirSum, rec[s].dirCount), 1)]]]

NewAggregate == [gstMaxSum |-> 0, gstMaxCount |-> 0, dirSum |-> 0, dirCount |-> 0]

\* a faulty rollup: the directions take each year's mean, once a year
AddMaxAggregates_OfMeans(agg, rec) ==
    [s \in SeasonNames |->
       [gstMaxSum |-> IF rec[s].gstMax # NegInf
                      THEN agg[s].gstMaxSum + rec[s].gstMax.v ELSE agg[s].gstMaxSum,
        gstMaxCount |-> IF rec[s].gstMax # NegInf
                        THEN agg[s].gstMaxCount + 1 ELSE agg[s].gstMaxCount,
        dirSum |-> IF rec[s].dirCount > 0
                   THEN agg[s].dirSum + rec[s].dirSum \div rec[s].dirCount
                   ELSE agg[s].dirSum,
        dirCount |-> IF rec[s].dirCount > 0
                     THEN agg[s].dirCount + 1 ELSE agg[s].dirCount]]

\* if (gstVal !== null) gstMaxSum += gstVal ...; if (dirAvgVal !== null) ...
AddMaxAggregates(agg, rec) ==
    [s \in SeasonNames |->
       [gstMaxSum |-> IF rec[s].gstMax # NegInf
                      THEN agg[s].gstMaxSum + rec[s].gstMax.v ELSE agg[s].gstMaxSum,
        gstMaxCount |-> IF rec[s].gstMax # NegInf
                        THEN agg[s].gstMaxCount + 1 ELSE agg[s].gstMaxCount,
        dirSum |-> IF rec[s].dirCount > 0
                   THEN agg[s].dirSum + rec[s].dirSum ELSE agg[s].dirSum,
        dirCount |-> IF rec[s].dirCount > 0
                     THEN agg[s].dirCount + rec[s].dirCount ELSE agg[s].dirCount]]

RECURSIVE MaxAggregates(_, _, _, _)
MaxAggregates(sd, ys, i, agg) ==
    IF i > Len(ys) THEN agg
    ELSE MaxAggregates(sd, ys, i + 1, AddMaxAggregates(agg, sd[ys[i]]))

MaxMulti(agg) ==
    [t |-> "multi",
     cells |-> [s \in SeasonNames |->
                  [GST |-> IF agg[s].gstMaxCount > 0
                           THEN toFixed(Frac(agg[s].gstMaxSum, agg[s].gstMaxCount), 2)
                           ELSE NA,
                   DIR |-> IF agg[s].dirCount > 0
                           THEN toFixed(Frac(agg[s].dirSum, agg[s].dirCount), 1)
                           ELSE NA]]]

\* main of the max-gust script after the loop
MaxReport(sd) ==
    LET ys == Ascending(DOMAIN sd)
        agg == MaxAggregates(sd, ys, 1, NewYear(NewAggregate))
    IN  [printed |-> <<[t |-> "per-year"]>>
                       \o [i \in 1 .. Len(ys) |-> MaxRow(ys[i], sd[ys[i]])]
                       \o <<[t |-> "multi-year"], MaxMulti(agg)>>,
         locals |-> [kind |-> "maxgust", totals |-> agg]]

(* Reporter of the percentile scripts *)

\* a faulty sort: the list is left in the order of arrival
SortDesc_Unsorted(s) == s

RECURSIVE InsertDesc(_, _)
InsertDesc(x, s) ==
    IF s = <<>> THEN <<x>>
    ELSE IF x >= Head(s) THEN <<x>> \o s
    ELSE <<Head(s)>> \o InsertDesc(x, Tail(s))

RECURSIVE SortDesc(_)
\* validGusts.sort((a, b) => b - a)
SortDesc(s) == IF s = <<>> THEN <<>> ELSE InsertDesc(Head(s), SortDesc(Tail(s)))

RECURSIVE SumSeq(_)
\* subset.reduce((acc, val) => acc + val, 0)
SumSeq(s) == IF s = <<>> THEN 0 ELSE Head(s) + SumSeq(Tail(s))

\* validGusts.slice(0, n) for n >= 0
Slice(s, n) == SubSeq(s, 1, IF n < Len(s) THEN n ELSE Len(s))

\* a faulty selection: the slice is taken whatever the cutoff is
Subset_NoFallback(sorted, cutoffIndex) ==
    Slice(sorted, IF cutoffIndex < 0 THEN 0 ELSE cutoffIndex)

\* cutoffIndex >= 1 ? validGusts.slice(0, cutoffIndex) : validGusts
Subset(sorted, cutoffIndex) ==
    IF cutoffIndex >= 1 THEN Slice(sorted, cutoffIndex) ELSE sorted

\* a faulty cutoff: rounded up
CutoffIndex_Ceil(n, p) == (n * p.v + 99) \div 100

\* Math.floor(validGusts.length * (percentileValue / 100))
CutoffIndex(n, p) == (n * p.v) \div 100

\* main of the percentile scripts after the loop
PercentileReport(vg, p) ==
    IF Len(vg) = 0
    THEN [printed |-> <<[t |-> "total", n |-> 0], [t |-> "no-data"]>>,
          sorted |-> vg,
          locals |-> [kind |-> "no-data"]]
    ELSE LET sorted == SortDesc(vg)
             cutoffIndex == CutoffIndex(Len(sorted), p)
             subset == Subset(sorted, cutoffIndex)
             sum == SumSeq(subset)
         IN  [printed |-> <<[t |-> "total", n |-> Len(vg)]>>
                            \o (IF cutoffIndex < 1 THEN <<[t |-> "too-small"]>> ELSE <<>>)
                            \o <<[t |-> "top", size |-> Len(subset), of |-> Len(sorted)],
                                 [t |-> "average",
                                  value |-> toFixed(Frac(sum, Len(subset)), 2)]>>,
              sorted |-> sorted,
              locals |-> [kind |-> "percentile", cutoffIndex |-> cutoffIndex,
                          subset |-> subset, sum |-> sum,
                          avg |-> Frac(sum, Len(subset))]]

-----------------------------------------------------------------------------
(* Inputs of a run: the command line and the lines of the archive's files *)

MM == <<"M", "M">>
Minus(n) == <<"-">> \o Digits(n)

\* a data line: YY MM DD hh mm WDIR WSPD GST
Row(mm, wdir, wspd, gst) ==
    <<Digits(FirstYear), mm, Digits(1), Digits(0), Digits(0), wdir, wspd, gst>>

RowA == Row(Digits(1), Digits(120), Digits(10), Digits(15))

RowB == Row(Digits(1), Digits(150), Digits(30), Digits(35))
RowC == Row(Digits(1), Digits(151), Digits(5), Digits(5))
RowD == Row(Digits(1), Digits(120), Digits(20), Digits(25))

\* rows every script accepts; the directions lie at and around 120 + 30
PoolValid == {RowA, RowB, RowC}

\* a missing gust; a missing direction
PoolMissing ==
    {RowA,
     Row(Digits(1), Digits(120), Digits(10), MM),
     Row(Digits(1), MM, Digits(10), Digits(15))}

\* a gust above 90; a wind speed above 90 ("99" stands for a missing value)
PoolHigh ==
    {RowA,
     Row(Digits(1), Digits(120), Digits(10), Digits(91)),
     Row(Digits(1), Digits(120), Digits(99), Digits(15))}

\* a negative gust; a direction above 360
PoolOutside ==
    {RowA,
     Row(Digits(1), Digits(120), Digits(10), Minus(1)),
     Row(Digits(1), Digits(361), Digits(10), Digits(15))}

\* the ends of the valid ranges, and a second year's worth of zeros
PoolEdge ==
    {Row(Digits(12), Digits(360), Digits(90), Digits(90)),
     Row(Digits(4), Digits(0), Digits(0), Digits(0)),
     Row(Digits(10), Digits(120), Digits(0), Digits(20))}

\* months that are no month
PoolMonth ==
    {RowA,
     Row(Digits(13), Digits(120), Digits(10), Digits(15)),
     Row(MM, Digits(120), Digits(10), Digits(15))}

\* directions around north, for a target of 5 +- 10
PoolNorth ==
    {Row(Digits(1), Digits(359), Digits(10), Digits(15)),
     Row(Digits(1), Digits(15), Digits(10), Digits(25)),
     Row(Digits(1), Digits(16), Digits(10), Digits(35))}

\* lines that are no rows: an empty line, a row commented out, a row of 7 tokens
EmptyLine == <<>>
CommentRow == <<<<"#">> \o Digits(FirstYear)>> \o Tail(RowB)
ShortRow == SubSeq(RowB, 1, MinColumns - 1)
PoolSkip == {RowA, EmptyLine, CommentRow, ShortRow}

\* rows that differ from RowA in the tokens no script reads: the date and
\* time, and the columns after the gust
LongRow == RowA \o <<Digits(99), MM>>
OtherStamp ==
    <<Digits(1999), Digits(1), Digits(28), Digits(23), Digits(50),
      Digits(120), Digits(10), Digits(15)>>
PoolExtra == {RowB, LongRow, OtherStamp}

\* the pools by name
PoolOf(name) ==
    CASE name = "valid" -> PoolValid
      [] name = "missing" -> PoolMissing
      [] name = "high" -> PoolHigh
      [] name = "outside" -> PoolOutside
      [] name = "edge" -> PoolEdge
      [] name = "month" -> PoolMonth
      [] name = "north" -> PoolNorth
      [] name = "skip" -> PoolSkip
      [] name = "extra" -> PoolExtra
      [] OTHER -> {}

Pools == {"valid", "missing", "high", "outside", "edge", "month", "skip", "extra"}

Argv(dir, range, pct) == [dir |-> dir, range |-> range, pct |-> pct]
NoArgv == Argv(Undefined, Undefined, Undefined)

\* the runs of the model: a script, its command line, the lines of the archive
Scenarios ==
    {[variant |-> v, argv |-> NoArgv, pool |-> p] :
        v \in {"mean", "stream", "maxgust"}, p \in Pools}
      \cup {[variant |-> "percentile",
              argv |-> Argv(Digits(120), Digits(30), Digits(50)), pool |-> p] :
              p \in Pools}
      \cup {[variant |-> "ppercentile",
              argv |-> Argv(Digits(120), Digits(30), Digits(50)), pool |-> "valid"]}
      \cup {[variant |-> v,
              argv |-> Argv(Digits(5), Digits(10), Digits(200)), pool |-> "north"] :
              v \in PercentileVariants}
      \cup {[variant |-> v,
              argv |-> Argv(Digits(120), Undefined, Undefined), pool |-> "valid"] :
              v \in PercentileVariants}

\* const directionRange = parseFloat(process.argv[..]) || 30   (15 in part_000)
EffectiveRange(v, tok) ==
    JsOr(parseFloat(tok),
         Num(IF v = "ppercentile" THEN DefaultRangeParam ELSE DefaultRange))

\* const percentileValue = parseFloat(process.argv[..]) || 1
EffectivePercentile(tok) == JsOr(parseFloat(tok), Num(DefaultPercentile))

-----------------------------------------------------------------------------
(* The run *)

InitRun(sc) ==
    /\ variant = sc.variant
    /\ pool = sc.pool
    /\ fetchDirection = parseFloat(sc.argv.dir)
    /\ directionRange = EffectiveRange(sc.variant, sc.argv.range)
    /\ percentileValue = EffectivePercentile(sc.argv.pct)
    /\ year = FirstYear
    /\ pc = "loop"
    /\ resp = NoResp
    /\ seasonalData = <<>>
    /\ validGusts = <<>>
    /\ out = <<>>
    /\ report = NoReport
    /\ audit = EmptyBag
    /\ route = NoRoute
    /\ served = 0
    /\ probe = NoProbe

Init == \E sc \in Scenarios : InitRun(sc)

\* for (let year = ...; year <= ...; year++) { console.log(...); await fetch... }
\* a faulty loop: the next fetch starts without awaiting the one in flight
StartFetch_NoAwait ==
    /\ pc \in {"loop", "await"}
    /\ year' = IF pc = "await" THEN year + 1 ELSE year
    /\ year' <= LastYear
    /\ pc' = "await"
    /\ \E r \in OtherResponses : resp' = r
    /\ out' = Append(out, [t |-> "fetching", year |-> year'])
    /\ UNCHANGED <<variant, pool, fetchDirection, directionRange, percentileValue,
                   seasonalData, validGusts, report, audit, route, served, probe>>

\* The archive answers with a text of k lines of the run's pool, as long as
\* it has lines left to send, or with something that is no text.
StartFetch ==
    /\ pc = "loop"
    /\ year <= LastYear
    /\ pc' = "await"
    /\ \/ \E k \in 0 .. MaxLines - served : \E t \in [1 .. k -> PoolOf(pool)] :
             \E r \in TextResponses(t) : resp' = r /\ served' = served + k
       \/ \E r \in OtherResponses : resp' = r /\ served' = served
    /\ out' = Append(out, [t |-> "fetching", year |-> year])
    /\ UNCHANGED <<variant, pool, fetchDirection, directionRange, percentileValue,
                   year, seasonalData, validGusts, report, audit, route, probe>>

\* The response arrives and fetchAndProcessYear settles.  Resolved: the loop
\* goes on with the next year.  Rejected: main rejects and main().catch prints
\* the error.  A TypeError thrown in the "end" handler is caught by nothing:
\* the process dies.
OnResponse ==
    /\ pc = "await"
    /\ \E o \in {fetchAndProcessYear(variant,
                                      ParseState(seasonalData, validGusts, audit),
                                      resp, year)} :
           /\ seasonalData' = o.st.sd
           /\ validGusts' = o.st.vg
           /\ audit' = o.st.au
           /\ route' = o.route
           /\ out' = CASE o.settled = "resolved" -> out \o o.printed
                       [] o.settled = "rejected" ->
                            Append(out, [t |-> "error", year |-> year])
                       [] o.settled = "thrown" -> out
           /\ year' = IF o.settled = "resolved" THEN year + 1 ELSE year
           /\ pc' = CASE o.settled = "resolved" -> "loop"
                      [] o.settled = "rejected" -> "failed"
                      [] o.settled = "thrown" -> "crashed"
    /\ resp' = NoResp
    /\ UNCHANGED <<variant, pool, fetchDirection, directionRange, percentileValue,
                   report, served, probe>>

\* what main does after the loop
ReportOf(v, sd, vg, p) ==
    IF v \in PercentileVariants THEN PercentileReport(vg, p)
    ELSE IF v \in MeanVariants THEN MeanReport(v, sd)
    ELSE MaxReport(sd)

Report ==
    /\ pc = "loop"
    /\ year > LastYear
    /\ \E r \in {ReportOf(variant, seasonalData, validGusts, percentileValue)} :
           /\ out' = out \o r.printed
           /\ report' = r.locals
           /\ validGusts' = IF variant \in PercentileVariants THEN r.sorted
                            ELSE validGusts
    /\ pc' = "done"
    /\ UNCHANGED <<variant, pool, fetchDirection, directionRange, percentileValue,
                   year, resp, seasonalData, audit, route, served, probe>>

Next ==
    \/ StartFetch
    \/ OnResponse
    \/ Report

Spec == Init /\ [][Next]_vars

-----------------------------------------------------------------------------
(* The report alone, on what a loop may leave behind *)

RECURSIVE FoldYears(_, _, _, _)
\* the accumulators after the years from y on were parsed, texts[y] being the
\* text of year y
FoldYears(v, st, texts, y) ==
    IF y > LastYear \/ st.thrown THEN st
    ELSE FoldYears(v, parseFileAsText(v, st, texts[y], y), texts, y + 1)

\* the texts of one year in SpecReport
ReportTexts ==
    {<<>>, <<RowA>>, <<RowC>>, <<RowA, RowB>>, <<RowA, RowD, RowB>>,
     <<Row(Digits(7), Digits(90), Digits(10), Digits(15)), RowC>>,
     <<Row(Digits(1), Digits(120), Digits(10), MM)>>}

\* the gusts of the lists in SpecReport
ReportGusts == {5, 15, 35}

\* the percentile arguments in SpecReport
ReportPercentiles ==
    {Digits(10), Digits(50), Digits(100), Digits(200), Minus(5), Undefined}

InitReport ==
    /\ variant \in Variants
    /\ pool = "none"
    /\ fetchDirection = Num(120)
    /\ directionRange = EffectiveRange(variant, Undefined)
    /\ IF variant \in PercentileVariants
       THEN /\ \E tok \in ReportPercentiles : percentileValue = EffectivePercentile(tok)
            /\ \E n \in 0 .. MaxGusts : validGusts \in [1 .. n -> ReportGusts]
            /\ seasonalData = <<>>
            /\ audit = EmptyBag
       ELSE /\ percentileValue = EffectivePercentile(Undefined)
            /\ \E texts \in [Years -> ReportTexts] :
                 LET st == FoldYears(variant, ParseState(<<>>, <<>>, EmptyBag),
                                     texts, FirstYear)
                 IN  seasonalData = st.sd /\ audit = st.au
            /\ validGusts = <<>>
    /\ year = LastYear + 1
    /\ pc = "loop"
    /\ resp = NoResp
    /\ out = <<>>
    /\ report = NoReport
    /\ route = NoRoute
    /\ served = 0
    /\ probe = NoProbe

SpecReport == InitReport /\ [][Report]_vars

-----------------------------------------------------------------------------
(* The season classifier alone *)

\* what parseInt may hand to getSeason
MonthInputs == {NaN} \cup {Num(m) : m \in (0 - MonthSpan) .. (MonthSpan + 12)}

InitSeason ==
    /\ variant = "mean"
    /\ pool = "none"
    /\ fetchDirection = NaN
    /\ directionRange = Num(DefaultRange)
    /\ percentileValue = Num(DefaultPercentile)
    /\ year = FirstYear
    /\ pc = "await"
    /\ resp = NoResp
    /\ seasonalData = <<>>
    /\ validGusts = <<>>
    /\ out = <<>>
    /\ report = NoReport
    /\ audit = EmptyBag
    /\ route = NoRoute
    /\ served = 0
    /\ \E month \in MonthInputs : probe = [op |-> "call", month |-> month]

\* const season = getSeason(month)
ApplyGetSeason ==
    /\ probe.op = "call"
    /\ probe' = [op |-> "return", month |-> probe.month,
                 season |-> getSeason(probe.month)]
    /\ UNCHANGED <<variant, pool, fetchDirection, directionRange, percentileValue,
                   year, pc, resp, seasonalData, validGusts, out, report, audit,
                   route, served>>

SpecSeason == InitSeason /\ [][ApplyGetSeason]_vars

-----------------------------------------------------------------------------
(* SpecArgv: the percentile scripts read their command line *)

\* the tolerance and percentile arguments tried: none, numbers, and no number
ArgvTokens ==
    {Undefined, Digits(0), Digits(1), Digits(15), Digits(30), Digits(45),
     Digits(200), Minus(5), MM}

InitArgv ==
    /\ variant \in PercentileVariants
    /\ pool = "none"
    /\ fetchDirection = NaN
    /\ directionRange = NaN
    /\ percentileValue = NaN
    /\ year = FirstYear
    /\ pc = "start"
    /\ resp = NoResp
    /\ seasonalData = <<>>
    /\ validGusts = <<>>
    /\ out = <<>>
    /\ report = NoReport
    /\ audit = EmptyBag
    /\ route = NoRoute
    /\ served = 0
    /\ \E range \in ArgvTokens, pct \in ArgvTokens :
          probe = [op |-> "argv", argv |-> Argv(Digits(120), range, pct)]

\* const fetchDirection = parseFloat(process.argv[..]); const directionRange
\* = parseFloat(process.argv[..]) || 30; const percentileValue = ... || 1
ReadArgv ==
    /\ pc = "start"
    /\ pc' = "loop"
    /\ fetchDirection' = parseFloat(probe.argv.dir)
    /\ directionRange' = EffectiveRange(variant, probe.argv.range)
    /\ percentileValue' = EffectivePercentile(probe.argv.pct)
    /\ UNCHANGED <<variant, pool, year, resp, seasonalData, validGusts, out,
                   report, audit, route, served, probe>>

SpecArgv == InitArgv /\ [][ReadArgv]_vars

-----------------------------------------------------------------------------
(* SpecScraper: the property scraper (src/adjacent-properties/index.js) *)

MaxUrls == 2

ScraperVariants == {"urls", "urlObjects"}

\* a page is the sequence of its labelled elements; the label is the end of
\* the id attribute and the content is what stands before the closing tag
Span(label, content) == [label |-> label, content |-> content]

OwnerLabels == {"lblOwnerName_0", "lblOwnerName2_0"}
AddressLabel == "lblMailingAddress_0"
Whitespace == {" ", "\n"}
BrTags == {"<br>", "<br/>"}
Tags == BrTags \cup {"<b>", "</b>"}
NotFound == <<"Not found">>
Separator == <<",", " ">>

RECURSIVE TrimLeft(_)
TrimLeft(s) ==
    IF s # <<>> /\ Head(s) \in Whitespace THEN TrimLeft(Tail(s)) ELSE s

RECURSIVE TrimRight(_)
TrimRight(s) ==
    IF s # <<>> /\ s[Len(s)] \in Whitespace
    THEN TrimRight(SubSeq(s, 1, Len(s) - 1))
    ELSE s

trim(s) == TrimRight(TrimLeft(s))

\* /id="[^"]*lblOwnerName(?:2)?_0"[^>]*>([^<]+)<\/span>/ : the id ends as an
\* owner label and the content is at least one character and holds no tag
OwnerRegex(e) ==
    /\ e.label \in OwnerLabels
    /\ e.content # <<>>
    /\ \A i \in 1 .. Len(e.content) : e.content[i] \notin Tags

\* while ((match = ownerRegex.exec(html)) !== null) ownerNames.push(..trim())
RECURSIVE ownerNames(_)
ownerNames(html) ==
    IF html = <<>> THEN <<>>
    ELSE (IF OwnerRegex(Head(html)) THEN <<trim(Head(html).content)>>
          ELSE <<>>) \o ownerNames(Tail(html))

RECURSIVE join(_)
join(names) ==
    IF names = <<>> THEN <<>>
    ELSE IF Len(names) = 1 THEN names[1]
    ELSE names[1] \o Separator \o join(Tail(names))

\* ownerNames.join(", ") || "Not found": the empty string is falsy
OwnerOf(html) ==
    IF join(ownerNames(html)) = <<>> THEN NotFound
    ELSE join(ownerNames(html))

\* .replace(/<br\s*\/?>/gi, ", ")
RECURSIVE ReplaceBr(_)
ReplaceBr(s) ==
    IF s = <<>> THEN <<>>
    ELSE (IF Head(s) \in BrTags THEN Separator ELSE <<Head(s)>>)
         \o ReplaceBr(Tail(s))

\* .replace(/\s+/g, " ")
RECURSIVE CollapseSpace(_)
CollapseSpace(s) ==
    IF s = <<>> THEN <<>>
    ELSE IF Head(s) \in Whitespace
    THEN <<" ">> \o CollapseSpace(TrimLeft(s))
    ELSE <<Head(s)>> \o CollapseSpace(Tail(s))

\* html.match(/id="[^"]*lblMailingAddress_0"[^>]*>([\s\S]*?)<\/span>/): the
\* first address element of the page, or null
AddrMatch(html) ==
    IF \E i \in 1 .. Len(html) : html[i].label = AddressLabel
    THEN html[CHOOSE i \in 1 .. Len(html) :
                 /\ html[i].label = AddressLabel
                 /\ \A j \in 1 .. i - 1 : html[j].label # AddressLabel]
    ELSE Null

MailingAddressOf(html) ==
    IF AddrMatch(html) = Null THEN NotFound
    ELSE trim(CollapseSpace(ReplaceBr(AddrMatch(html).content)))

\* what a URL answers: a page, or a rejection of fetch() or of res.text()
Page(html) == [kind |-> "page", html |-> html]
Rejection(message) == [kind |-> "rejected", message |-> message]

extractFromUrl(answer) ==
    IF answer.kind = "page"
    THEN [ok |-> TRUE, owner |-> OwnerOf(answer.html),
          mailingAddress |-> MailingAddressOf(answer.html)]
    ELSE [ok |-> FALSE, message |-> answer.message]

OwnerA == Span("lblOwnerName_0", <<"A">>)
OwnerB == Span("lblOwnerName2_0", <<" ", "B", "\n">>)
OwnerEmpty == Span("lblOwnerName2_0", <<>>)
OwnerBlank == Span("lblOwnerName_0", <<" ">>)
OwnerMarkup == Span("lblOwnerName_0", <<"<b>", "A", "</b>">>)
OwnerNext == Span("lblOwnerName_1", <<"C">>)
AddressLong ==
    Span(AddressLabel, <<" ", "1", " ", "\n", "C", "<br>", "D", "<br/>", "E", " ">>)
AddressEmpty == Span(AddressLabel, <<>>)
Title == Span("lblTitle", <<"T">>)

Answers ==
    {Page(<<OwnerA, OwnerB, AddressLong>>),
     Page(<<Title, OwnerB, OwnerA, AddressEmpty, AddressLong>>),
     Page(<<OwnerA, OwnerEmpty, AddressLong, AddressEmpty>>),
     Page(<<OwnerBlank, AddressLong>>),
     Page(<<OwnerBlank, OwnerA>>),
     Page(<<OwnerMarkup, OwnerNext, Title>>),
     Page(<<>>),
     Rejection("fetch failed"),
     Rejection("body stream error")}

NewScrape(answers) ==
    [op |-> "scrape", answers |-> answers, i |-> 1, results |-> <<>>,
     errors |-> <<>>, file |-> Null]

InitScraper ==
    /\ variant \in ScraperVariants
    /\ pool = "none"
    /\ fetchDirection = NaN
    /\ directionRange = NaN
    /\ percentileValue = NaN
    /\ year = FirstYear
    /\ pc = "loop"
    /\ resp = NoResp
    /\ seasonalData = <<>>
    /\ validGusts = <<>>
    /\ out = <<>>
    /\ report = NoReport
    /\ audit = EmptyBag
    /\ route = NoRoute
    /\ served = 0
    /\ \E n \in 1 .. MaxUrls : \E answers \in [1 .. n -> Answers] :
          probe = NewScrape(answers)

\* the record appended to results: the first script puts the URL in it
Output(v, url, r) ==
    IF v = "urls"
    THEN [url |-> url, owner |-> r.owner, mailingAddress |-> r.mailingAddress]
    ELSE [owner |-> r.owner, mailingAddress |-> r.mailingAddress]

ProcessUrl_Rethrow(p, v) ==
    IF extractFromUrl(p.answers[p.i]).ok
    THEN [p EXCEPT !.i = @ + 1,
                   !.results =
                       Append(@, Output(v, p.i, extractFromUrl(p.answers[p.i])))]
    ELSE [p EXCEPT !.i = Len(p.answers) + 1,
                   !.errors = Append(@, [url |-> p.i,
                       message |-> extractFromUrl(p.answers[p.i]).message])]

\* one turn of for (const url of urls) { try { .. } catch (error) { .. } }
ProcessUrl(p, v) ==
    IF extractFromUrl(p.answers[p.i]).ok
    THEN [p EXCEPT !.i = @ + 1,
                   !.results =
                       Append(@, Output(v, p.i, extractFromUrl(p.answers[p.i])))]
    ELSE [p EXCEPT !.i = @ + 1,
                   !.errors = Append(@, [url |-> p.i,
                       message |-> extractFromUrl(p.answers[p.i]).message])]

NextUrl ==
    /\ pc = "loop"
    /\ probe.i <= Len(probe.answers)
    /\ probe' = ProcessUrl(probe, variant)
    /\ out' = Append(out, [t |-> "processing", url |-> probe.i])
    /\ UNCHANGED <<variant, pool, fetchDirection, directionRange,
                   percentileValue, year, pc, resp, seasonalData, validGusts,
                   report, audit, route, served>>

\* fs.writeFileSync(.., results) after the loop
WriteResults ==
    /\ pc = "loop"
    /\ probe.i > Len(probe.answers)
    /\ pc' = "done"
    /\ probe' = [probe EXCEPT !.file = probe.results]
    /\ out' = Append(out, [t |-> "saved"])
    /\ UNCHANGED <<variant, pool, fetchDirection, directionRange,
                   percentileValue, year, resp, seasonalData, validGusts,
                   report, audit, route, served>>

SpecScraper == InitScraper /\ [][NextUrl \/ WriteResults]_vars

-----------------------------------------------------------------------------
(* SpecOrder: the folds and the rollup, the years taken in any order *)

\* the texts of one year in SpecOrder: those of SpecReport and a row whose
\* month is no month
OrderTexts ==
    ReportTexts \cup {<<RowB, Row(Digits(13), Digits(120), Digits(10), Digits(15))>>}

InitOrder ==
    /\ variant \in Variants
    /\ pool = "none"
    /\ fetchDirection = Num(120)
    /\ directionRange = EffectiveRange(variant, Undefined)
    /\ IF variant \in PercentileVariants
       THEN \E tok \in ReportPercentiles : percentileValue = EffectivePercentile(tok)
       ELSE percentileValue = EffectivePercentile(Undefined)
    /\ year = FirstYear
    /\ pc = "loop"
    /\ resp = NoResp
    /\ seasonalData = <<>>
    /\ validGusts = <<>>
    /\ out = <<>>
    /\ report = NoReport
    /\ audit = EmptyBag
    /\ route = NoRoute
    /\ served = 0
    /\ \E texts \in [Years -> OrderTexts] :
          probe = [op |-> "order", texts |-> texts, folded |-> <<>>]

\* parseFileAsText on the text of a year not yet taken; year counts the turns
\* of the loop
FoldAnyYear ==
    /\ pc = "loop"
    /\ year <= LastYear
    /\ \E y \in Years \ {probe.folded[i] : i \in 1 .. Len(probe.folded)} :
       \E st \in {parseFileAsText(variant,
                                  ParseState(seasonalData, validGusts, audit),
                                  probe.texts[y], y)} :
           /\ seasonalData' = st.sd
           /\ validGusts' = st.vg
           /\ audit' = st.au
           /\ pc' = IF st.thrown THEN "crashed" ELSE "loop"
           /\ probe' = [probe EXCEPT !.folded = Append(@, y)]
    /\ year' = year + 1
    /\ UNCHANGED <<variant, pool, fetchDirection, directionRange, percentileValue,
                   resp, out, report, route, served>>

SpecOrder == InitOrder /\ [][FoldAnyYear \/ Report]_vars

-----------------------------------------------------------------------------
(* SpecTxt: the CSV filter/renumber utility (src/txt-update/index.js) *)

MaxRows == 3
MaxRuns == 2

\* process.argv[2] when no argument is given
NoArgument == [k |-> "undefined"]

\* process.argv[2] when an argument is given: a string
Argument(s) == [k |-> "string", s |-> s]

\* a text is a sequence of characters; a word of a field counts as one
Comma == ","
Cr == "\r"
Lf == "\n"

RECURSIVE SplitLines(_, _)
\* text.split(/\r?\n/): cur is the line read so far
SplitLines(text, cur) ==
    IF text = <<>> THEN <<cur>>
    ELSE IF Head(text) = Lf THEN <<cur>> \o SplitLines(Tail(text), <<>>)
    ELSE IF Head(text) = Cr /\ Len(text) >= 2 /\ text[2] = Lf
    THEN <<cur>> \o SplitLines(Tail(Tail(text)), <<>>)
    ELSE SplitLines(Tail(text), Append(cur, Head(text)))

\* .filter(Boolean): the empty string is falsy
NonEmpty(lines) == SelectSeq(lines, LAMBDA l : l # <<>>)

RECURSIVE SplitComma(_, _)
\* line.split(",")
SplitComma(line, cur) ==
    IF line = <<>> THEN <<cur>>
    ELSE IF Head(line) = Comma THEN <<cur>> \o SplitComma(Tail(line), <<>>)
    ELSE SplitComma(Tail(line), Append(cur, Head(line)))

RECURSIVE JoinWith(_, _)
\* parts.join(sep)
JoinWith(parts, sep) ==
    IF parts = <<>> THEN <<>>
    ELSE IF Len(parts) = 1 THEN parts[1]
    ELSE parts[1] \o <<sep>> \o JoinWith(Tail(parts), sep)

\* const [pointNo, northing, easting, elevation, description] = ..;
\* return description === desc
Matches(line, desc) ==
    /\ Len(SplitComma(line, <<>>)) >= 5
    /\ SplitComma(line, <<>>)[5] = desc.s

\* a faulty numbering: the positions start at 0
Renumber_FromZero(line, i) ==
    JoinWith([SplitComma(line, <<>>) EXCEPT ![1] = Digits(i - 1)], Comma)

\* cols[0] = i + 1; return cols.join(","), for the line at position i of 1 ..
Renumber(line, i) ==
    JoinWith([SplitComma(line, <<>>) EXCEPT ![1] = Digits(i)], Comma)

\* what the script writes for a file's text
Rewritten(text, desc) ==
    LET data == NonEmpty(SplitLines(text, <<>>))
        filtered == SelectSeq(data, LAMBDA l : Matches(l, desc))
        renumbered == [i \in 1 .. Len(filtered) |-> Renumber(filtered[i], i)]
    IN  JoinWith(renumbered, Lf)

\* the lines of the input files
TxtLines ==
    {<<"9", Comma, "N", Comma, "E", Comma, "Z", Comma, "TREE">>,
     <<"8", Comma, "N", Comma, "E", Comma, "Z", Comma, "ROCK">>,
     <<"7", "7", Comma, "N", Comma, "E", Comma, "Z", Comma, "TREE", Comma, "x">>,
     <<"5", Comma, "N", Comma, "E", Comma, "TREE">>,
     <<Comma, "N", Comma, "E", Comma, "Z", Comma>>,
     <<>>}

\* the description arguments: none, the empty string, two words
TxtArguments ==
    {NoArgument, Argument(<<>>), Argument(<<"TREE">>), Argument(<<"ROCK">>)}

\* the text of a file with these lines, this line end, and a last line end or
\* none
RECURSIVE TextOfLines(_, _, _)
TextOfLines(lines, eol, last) ==
    IF lines = <<>> THEN <<>>
    ELSE Head(lines) \o (IF Len(lines) > 1 \/ last THEN eol ELSE <<>>)
         \o TextOfLines(Tail(lines), eol, last)

NewTxt(desc, lines, text) ==
    [op |-> "txt", desc |-> desc, lines |-> lines, file |-> text, runs |-> 0,
     reads |-> 0, writes |-> 0, exit |-> 0]

InitTxt ==
    /\ variant = "txt-update"
    /\ pool = "none"
    /\ fetchDirection = NaN
    /\ directionRange = NaN
    /\ percentileValue = NaN
    /\ year = FirstYear
    /\ pc = "start"
    /\ resp = NoResp
    /\ seasonalData = <<>>
    /\ validGusts = <<>>
    /\ out = <<>>
    /\ report = NoReport
    /\ audit = EmptyBag
    /\ route = NoRoute
    /\ served = 0
    /\ \E desc \in TxtArguments, n \in 0 .. MaxRows :
       \E lines \in [1 .. n -> TxtLines] :
       \E eol \in {<<Lf>>, <<Cr, Lf>>}, last \in BOOLEAN :
          probe = NewTxt(desc, lines, TextOfLines(lines, eol, last))

\* one run of the script: if (!desc) { console.error(..); process.exit(1) }
\* ... fs.writeFileSync(filePath, renumbered.join("\n"))
RunTxtUpdate ==
    /\ pc = "start"
    /\ probe.runs < MaxRuns
    /\ IF probe.desc = NoArgument \/ probe.desc.s = <<>>
       THEN /\ probe' = [probe EXCEPT !.runs = @ + 1, !.exit = 1]
            /\ out' = Append(out, [t |-> "usage"])
       ELSE /\ probe' = [probe EXCEPT !.runs = @ + 1, !.exit = 0,
                                      !.reads = @ + 1, !.writes = @ + 1,
                                      !.file = Rewritten(@, probe.desc)]
            /\ out' = out
    /\ UNCHANGED <<variant, pool, fetchDirection, directionRange,
                   percentileValue, year, pc, resp, seasonalData, validGusts,
                   report, audit, route, served>>

SpecTxt == InitTxt /\ [][RunTxtUpdate]_vars

-----------------------------------------------------------------------------
(* Properties *)

\* the text the parser was given, by what was done with the response
TextOf(r, how) ==
    IF how = "gunzip" THEN r.body.inflated.text
    ELSE IF how = "text" THEN r.body.text
    ELSE <<>>

\* x is a number in 0 .. max
Within(x, max) == x.k = "num" /\ 0 <= x.v /\ x.v <= max

\* a row one of whose required fields is no number or lies out of its range:
\* direction and gust in the percentile scripts and the max-gust script, wind
\* speed and gust in the seasonal-mean scripts
Rejected(v, line) ==
    /\ ~SkipLine(line)
    /\ Len(line) >= MinColumns
    /\ IF v \in MeanVariants
       THEN ~(Within(parseFloat(line[7]), MaxSpeed)
                /\ Within(parseFloat(line[8]), MaxSpeed))
       ELSE ~(Within(parseFloat(line[6]), MaxDirection)
                /\ Within(parseFloat(line[8]), MaxSpeed))

\* the record of a year that was set up and never folded into
FreshYear(v) ==
    IF v = "maxgust" THEN NewYear(initSeasonRecordMax)
    ELSE NewYear(initSeasonRecordMean)

\* the step that parses a text
ParsesText == pc = "await" /\ resp.kind = "response" /\ route'.how \in {"gunzip", "text"}

\* every value handed to the fold lies in its range
FoldedInRange ==
    \A e \in BagToSet(audit) :
       Within(e.v, IF e.f = "wdir" THEN MaxDirection ELSE MaxSpeed)

\* parsing a text changes the accumulators as parsing the text without its
\* rejected rows does; a text of rejected rows only changes none
RejectedRowsChangeNothing ==
    ParsesText =>
       \E text \in {TextOf(resp, route'.how)} :
       \E kept \in {SelectSeq(text, LAMBDA line : ~Rejected(variant, line))} :
       \E o \in {parseFileAsText(variant,
                                 ParseState(seasonalData, validGusts, audit),
                                 kept, year)} :
           /\ seasonalData' = o.sd
           /\ validGusts' = o.vg
           /\ audit' = o.au
           /\ pc' # "crashed" => route'.dropped = Len(text) - Len(kept)
           /\ (\A i \in 1 .. Len(text) : Rejected(variant, text[i])) =>
                 /\ validGusts' = validGusts
                 /\ audit' = audit
                 /\ \A y \in DOMAIN seasonalData' :
                       seasonalData'[y] = IF y \in DOMAIN seasonalData
                                          THEN seasonalData[y]
                                          ELSE FreshYear(variant)

\* C1: every wind speed and gust that was folded is a number in 0 .. 90 and
\* every direction that was used is a number in 0 .. 360; a row with a
\* required field that is no number or out of range changes no accumulator.
C1_ValidatedFold == []FoldedInRange /\ [][RejectedRowsChangeNothing]_vars

\* a text of two lines was parsed: one row was rejected, one was folded
C1_Witness ==
    /\ variant = "mean"
    /\ pc = "loop"
    /\ route.how = "gunzip"
    /\ route.dropped = 1
    /\ served = 2
    /\ year = FirstYear + 1
    /\ BagCardinality(audit) = 2

RECURSIVE SumFn(_, _)
\* the sum of f[x] over the x in S
SumFn(f, S) ==
    IF S = {} THEN 0
    ELSE LET x == CHOOSE z \in S : TRUE
         IN  f[x] + SumFn(f, S \ {x})

\* the multi-year line is the last line of the report
MultiYearCells == out[Len(out)].cells

\* the cell that shows sum / count, or N/A without a count
Shown(sum, count, d) == IF count > 0 THEN toFixed(Frac(sum, count), d) ELSE NA

\* C2: the multi-year value of a season in the seasonal-mean reports is the
\* sum of the per-year sums over the sum of the per-year counts, over the
\* years with a valid row in the season, for wind speed and for gust.
C2_VolumeWeightedMean ==
    (pc = "done" /\ variant \in MeanVariants) =>
       \A s \in SeasonNames :
          LET ys == {y \in DOMAIN seasonalData : seasonalData[y][s].WSPD_count > 0}
              wsum == SumFn([y \in ys |-> seasonalData[y][s].WSPD_sum], ys)
              wcount == SumFn([y \in ys |-> seasonalData[y][s].WSPD_count], ys)
              gsum == SumFn([y \in ys |-> seasonalData[y][s].GST_sum], ys)
              gcount == SumFn([y \in ys |-> seasonalData[y][s].GST_count], ys)
          IN  /\ report.totals[s] = [WSPD_sum |-> wsum, WSPD_count |-> wcount,
                                     GST_sum |-> gsum, GST_count |-> gcount]
              /\ MultiYearCells[s].WSPD = Shown(wsum, wcount, 2)
              /\ MultiYearCells[s].GST = Shown(gsum, gcount, 2)

\* winds of 10, 20, 30 in one winter and of 5 in the next: the report shows
\* 16.25, and the mean of the two winters' means is 12.5
C2_Witness ==
    /\ pc = "done"
    /\ variant = "mean"
    /\ {FirstYear, FirstYear + 1} \subseteq DOMAIN seasonalData
    /\ seasonalData[FirstYear]["Winter"].WSPD_sum = 60
    /\ seasonalData[FirstYear]["Winter"].WSPD_count = 3
    /\ seasonalData[FirstYear + 1]["Winter"].WSPD_sum = 5
    /\ seasonalData[FirstYear + 1]["Winter"].WSPD_count = 1
    /\ MultiYearCells["Winter"].WSPD = [k |-> "fixed", d |-> 2, n |-> 1625]

\* s is in descending order
IsDescending(s) == \A i \in 1 .. Len(s) - 1 : s[i] >= s[i + 1]

\* how often x occurs in s
Occurrences(s, x) == Cardinality({i \in 1 .. Len(s) : s[i] = x})

\* t holds the elements of s, each as often as s does
IsPermutation(s, t) ==
    /\ Len(s) = Len(t)
    /\ \A i \in 1 .. Len(s) : Occurrences(s, s[i]) = Occurrences(t, s[i])

\* the step that reports on a list of at least one qualifying gust
ReportsPercentile ==
    /\ pc = "loop"
    /\ pc' = "done"
    /\ variant \in PercentileVariants
    /\ Len(validGusts) >= 1

\* floor(N * p / 100) for the N qualifying gusts and the percentile p
FloorCutoff == (Len(validGusts) * percentileValue.v) \div 100

\* the report averages the first `size` gusts of the sorted list
AveragesFirst(size) ==
    /\ IsDescending(validGusts')
    /\ IsPermutation(validGusts, validGusts')
    /\ report'.cutoffIndex = FloorCutoff
    /\ report'.subset = [i \in 1 .. size |-> validGusts'[i]]
    /\ out'[Len(out')] =
          [t |-> "average",
           value |-> toFixed(Frac(SumFn(validGusts', 1 .. size), size), 2)]

Accepted(v, line) ==
    ~SkipLine(line) /\ Len(line) >= MinColumns /\ ~Rejected(v, line)

\* the row's direction d has target - tolerance <= d <= target + tolerance,
\* compared as plain numbers
InArc(line) ==
    LET d == parseFloat(line[6]).v
    IN  /\ fetchDirection.v - directionRange.v <= d
        /\ d <= fetchDirection.v + directionRange.v

\* 120 +- 30 keeps 150 and rejects 151; 5 +- 10 rejects 359
ArcExamples ==
    /\ isDirectionInRange(Num(150), Num(120), Num(30))
    /\ ~isDirectionInRange(Num(151), Num(120), Num(30))
    /\ ~isDirectionInRange(Num(359), Num(5), Num(10))

\* the gusts of the rows of a text, in order
GustsOf(rows) == [i \in 1 .. Len(rows) |-> parseFloat(rows[i][8]).v]

\* C4: in the percentile scripts the gust of a valid row is pushed onto the
\* list if and only if target - tolerance <= WDIR <= target + tolerance, both
\* ends included and without wrapping around 0/360.
C4_DirectionFilter ==
    [][/\ ArcExamples
       /\ (ParsesText /\ variant \in PercentileVariants) =>
             LET text == TextOf(resp, route'.how)
                 rows == SelectSeq(text, LAMBDA line : Accepted(variant, line))
                 kept == SelectSeq(rows, InArc)
             IN  validGusts' = validGusts \o GustsOf(kept)]_vars

\* with 120 +- 30, the rows of direction 150 and 151 were parsed: the gust of
\* the first is on the list, the gust of the second is not
C4_Witness ==
    /\ variant = "percentile"
    /\ fetchDirection = Num(120)
    /\ directionRange = Num(30)
    /\ pc = "loop"
    /\ BagIn([y |-> 0, s |-> "-", f |-> "wdir", v |-> Num(150)], audit)
    /\ BagIn([y |-> 0, s |-> "-", f |-> "wdir", v |-> Num(151)], audit)
    /\ validGusts = <<35>>

\* the step that handles an answer of the server
Answered == pc = "await" /\ resp.kind = "response"

\* C5: in every variant, a year whose answer has a status other than 200
\* ends without an error, changes no accumulator, and the loop goes on with
\* the next year.
C5_NonOkSkipped ==
    [][(Answered /\ resp.status # StatusOk) =>
          /\ pc' = "loop"
          /\ year' = year + 1
          /\ seasonalData' = seasonalData
          /\ validGusts' = validGusts
          /\ audit' = audit]_vars

\* the payload starts with the two bytes of the gzip signature
HasSignature(body) ==
    /\ Len(body.bytes) >= 2
    /\ body.bytes[1] = GzipMagic0
    /\ body.bytes[2] = GzipMagic1

\* C6: a payload fetched with status 200, of any length, is decompressed
\* before parsing if and only if its first two bytes are 0x1f, 0x8b; any
\* other payload is handed to the text parser as it is.
C6_RoutedBySignature ==
    [][(Answered /\ resp.status = StatusOk) =>
          IF HasSignature(resp.body)
          THEN route'.how \in {"gunzip", "gunzip-failed"}
          ELSE route'.how = "text"]_vars

\* C7: getSeason returns Winter for 12, 1, 2, Spring for 3, 4, 5, Summer for
\* 6, 7, 8, Fall for 9, 10, 11, the same value whenever it is asked again,
\* and none of the four seasons for any other input.
C7_SeasonTable ==
    probe.op = "return" =>
       LET m == probe.month
           is(S) == m.k = "num" /\ m.v \in S
       IN  /\ is({12, 1, 2}) => probe.season = "Winter"
           /\ is({3, 4, 5}) => probe.season = "Spring"
           /\ is({6, 7, 8}) => probe.season = "Summer"
           /\ is({9, 10, 11}) => probe.season = "Fall"
           /\ ~is(1 .. 12) => probe.season \notin SeasonNames
           /\ getSeason(m) = probe.season

\* getSeason(12) returned Winter
C7_Witness == probe = [op |-> "return", month |-> Num(12), season |-> "Winter"]

\* C8: no row is folded into a season other than the four, and the fold never
\* fails on a row whose month is missing, no number or outside 1 .. 12.
C8_FoldNeverFails ==
    /\ pc # "crashed"
    /\ variant \notin PercentileVariants =>
          \A e \in BagToSet(audit) : e.s \in SeasonNames

\* the valid gusts folded into the bucket of year y and season s
GustsIn(y, s) ==
    {e.v.v : e \in {x \in BagToSet(audit) : x.y = y /\ x.s = s /\ x.f = "gst"}}

\* the largest number of a set that is not empty
Largest(S) == CHOOSE m \in S : \A z \in S : z <= m

\* C9: in the max-gust script the maximum of a (year, season) bucket is the
\* largest valid gust folded into it, and null (shown N/A) when no valid row
\* was; the multi-year value is the mean of the per-year maxima that are not
\* null, so the -Infinity of an empty bucket enters neither gstMaxSum nor
\* gstMaxCount.
C9_MaxGustRollup ==
    variant = "maxgust" =>
       /\ \A y \in DOMAIN seasonalData, s \in SeasonNames :
             seasonalData[y][s].gstMax =
                IF GustsIn(y, s) = {} THEN NegInf ELSE Num(Largest(GustsIn(y, s)))
       /\ pc = "done" =>
             /\ \A i \in 1 .. Len(out), s \in SeasonNames :
                   out[i].t = "row" =>
                      out[i].cells[s].GST =
                         IF GustsIn(out[i].year, s) = {} THEN NA
                         ELSE toFixed(Frac(Largest(GustsIn(out[i].year, s)), 1), 2)
             /\ \A s \in SeasonNames :
                   LET ys == {y \in DOMAIN seasonalData : GustsIn(y, s) # {}}
                       sum == SumFn([y \in ys |-> Largest(GustsIn(y, s))], ys)
                   IN  /\ report.totals[s].gstMaxSum = sum
                       /\ report.totals[s].gstMaxCount = Cardinality(ys)
                       /\ MultiYearCells[s].GST = Shown(sum, Cardinality(ys), 2)

\* gusts of 15 and 35 in the first winter and no valid row in the second:
\* the multi-year value is 35 over 1 year
C9_Witness ==
    /\ variant = "maxgust"
    /\ pc = "done"
    /\ DOMAIN seasonalData = Years
    /\ GustsIn(FirstYear, "Winter") = {15, 35}
    /\ seasonalData[FirstYear + 1]["Winter"].gstMax = NegInf
    /\ report.totals["Winter"].gstMaxSum = 35
    /\ report.totals["Winter"].gstMaxCount = 1

\* the valid directions folded into season s, over all years
DirectionsIn(s) == {e \in BagToSet(audit) : e.s = s /\ e.f = "wdir"}

\* C10: in the max-gust script the multi-year mean direction of a season is
\* the sum of all valid direction readings of all years over their number.
C10_VolumeWeightedDirection ==
    (variant = "maxgust" /\ pc = "done") =>
       \A s \in SeasonNames :
          LET es == DirectionsIn(s)
              sum == SumFn([e \in es |-> e.v.v * CopiesIn(e, audit)], es)
              count == SumFn([e \in es |-> CopiesIn(e, audit)], es)
          IN  /\ report.totals[s].dirSum = sum
              /\ report.totals[s].dirCount = count
              /\ MultiYearCells[s].DIR = Shown(sum, count, 1)

\* directions of 120 and 150 in the first winter and of 151 in the second:
\* the report shows 421 / 3 = 140.3, and the mean of the two winters' means
\* is 143
C10_Witness ==
    /\ variant = "maxgust"
    /\ pc = "done"
    /\ {FirstYear, FirstYear + 1} \subseteq DOMAIN seasonalData
    /\ seasonalData[FirstYear]["Winter"].dirSum = 270
    /\ seasonalData[FirstYear]["Winter"].dirCount = 2
    /\ seasonalData[FirstYear + 1]["Winter"].dirSum = 151
    /\ seasonalData[FirstYear + 1]["Winter"].dirCount = 1
    /\ MultiYearCells["Winter"].DIR = [k |-> "fixed", d |-> 1, n |-> 1403]

\* C11: a transport error or a decompression failure in one year is caught
\* for that year, and the loop goes on with the next year.
C11_FailureCaught ==
    [][(pc = "await" /\ route'.how \in {"error", "gunzip-failed"}) =>
          /\ pc' = "loop"
          /\ year' = year + 1]_vars

\* the lines of the report of the given kind
Printed(t) == SelectSeq(out, LAMBDA e : e.t = t)

\* C12: a percentile run whose list of qualifying gusts is empty prints the
\* no-data notice and no average; a run that prints an average has averaged
\* between 1 and N of its N gusts, whatever the percentile argument is.
C12_NoEmptyAverage ==
    (pc = "done" /\ variant \in PercentileVariants) =>
       IF validGusts = <<>>
       THEN /\ report.kind = "no-data"
            /\ out[Len(out)].t = "no-data"
            /\ Printed("average") = <<>>
       ELSE /\ report.kind = "percentile"
            /\ Len(report.subset) >= 1
            /\ Len(report.subset) <= Len(validGusts)
            /\ report.avg.den = Len(report.subset)
            /\ Len(Printed("average")) = 1
            /\ Printed("average")[1].value.k = "fixed"

\* no gust qualified: the run ended with the no-data notice
C12_Witness ==
    /\ pc = "done"
    /\ variant \in PercentileVariants
    /\ validGusts = <<>>
    /\ report.kind = "no-data"
    /\ out[Len(out)].t = "no-data"

\* the years whose fetch has started, in the order of their start
Fetching == Printed("fetching")

\* the fetches started so far are those of the first years of the range, in
\* ascending order; while main awaits, exactly the last of them is in flight
FetchedInOrder ==
    /\ \A i \in 1 .. Len(Fetching) : Fetching[i].year = FirstYear + i - 1
    /\ pc = "loop" => resp = NoResp /\ Len(Fetching) = year - FirstYear
    /\ pc # "loop" /\ pc # "done" =>
          Len(Fetching) = year - FirstYear + 1
    /\ pc = "await" <=> resp # NoResp

\* the values handed to the fold in this step
NewlyFolded == {e \in BagToSet(audit') : CopiesIn(e, audit') > CopiesIn(e, audit)}

\* a fetch starts only when none is in flight, and changes no accumulator;
\* the accumulators change only while the fetch of the current year is in
\* flight, and only those of the current year
OneYearAtATime ==
    /\ (Len(out') > Len(out) /\ out'[Len(out')].t = "fetching") =>
          /\ pc = "loop"
          /\ resp = NoResp
          /\ out'[Len(out')].year = year
          /\ UNCHANGED <<seasonalData, validGusts, audit>>
    /\ (\/ seasonalData' # seasonalData
        \/ audit' # audit
        \/ (validGusts' # validGusts /\ pc' # "done")) =>
          /\ pc = "await"
          /\ Fetching[Len(Fetching)].year = year
          /\ DOMAIN seasonalData' \subseteq DOMAIN seasonalData \cup {year}
          /\ \A y \in DOMAIN seasonalData \ {year} : seasonalData'[y] = seasonalData[y]
          /\ \A e \in NewlyFolded : e.y \in {year, 0}

\* C13: the years are fetched in ascending order, at most one fetch is in
\* flight, the fetch of the next year starts only after the year before was
\* folded or skipped, and no accumulator of a year changes after the fetch
\* of the next year has started.
C13_SequentialLoop == []FetchedInOrder /\ [][OneYearAtATime]_vars

\* the first year was folded and the fetch of the second is in flight
C13_Witness ==
    /\ variant = "maxgust"
    /\ pc = "await"
    /\ year = FirstYear + 1
    /\ Len(Fetching) = 2
    /\ FirstYear \in DOMAIN seasonalData
    /\ seasonalData[FirstYear]["Winter"].dirCount >= 1

\* the record of year y before the step, empty when the step sets the year up
Before(y) == IF y \in DOMAIN seasonalData THEN seasonalData[y] ELSE FreshYear(variant)

\* how many values of field f this step folds into bucket (y, s), and their sum
FoldedCount(y, s, f) ==
    LET es == {e \in NewlyFolded : e.y = y /\ e.s = s /\ e.f = f}
    IN  SumFn([e \in es |-> CopiesIn(e, audit') - CopiesIn(e, audit)], es)

FoldedSum(y, s, f) ==
    LET es == {e \in NewlyFolded : e.y = y /\ e.s = s /\ e.f = f}
    IN  SumFn([e \in es |-> e.v.v * (CopiesIn(e, audit') - CopiesIn(e, audit))], es)

\* a count grows by one for each value folded and never shrinks, and its sum
\* grows by exactly the values folded
InLockStep(count0, count1, sum0, sum1, y, s, f) ==
    /\ count1 >= count0
    /\ count1 - count0 = FoldedCount(y, s, f)
    /\ sum1 - sum0 = FoldedSum(y, s, f)
    /\ sum1 # sum0 => count1 > count0

CountsAndSums ==
    /\ DOMAIN seasonalData \subseteq DOMAIN seasonalData'
    /\ \A y \in DOMAIN seasonalData', s \in SeasonNames :
          \E old \in {Before(y)[s]} : \E new \in {seasonalData'[y][s]} :
             IF variant = "maxgust"
             THEN InLockStep(old.dirCount, new.dirCount, old.dirSum, new.dirSum,
                             y, s, "wdir")
             ELSE /\ InLockStep(old.WSPD_count, new.WSPD_count,
                                old.WSPD_sum, new.WSPD_sum, y, s, "wspd")
                  /\ InLockStep(old.GST_count, new.GST_count,
                                old.GST_sum, new.GST_sum, y, s, "gst")

\* the report's rows, one a year
Rows == Printed("row")

\* at the report an average is there exactly when its count is positive: in
\* the multi-year line of every seasonal script, and in the rows of the
\* scripts that print a null average as N/A
AveragesDefined ==
    (pc = "done" /\ variant \notin PercentileVariants) =>
       \A s \in SeasonNames :
          /\ IF variant = "maxgust"
             THEN /\ MultiYearCells[s].DIR # NA <=> report.totals[s].dirCount > 0
                  /\ MultiYearCells[s].GST # NA <=> report.totals[s].gstMaxCount > 0
             ELSE /\ MultiYearCells[s].WSPD # NA <=> report.totals[s].WSPD_count > 0
                  /\ MultiYearCells[s].GST # NA <=> report.totals[s].GST_count > 0
          /\ \A i \in 1 .. Len(Rows) :
                \E rec \in {seasonalData[Rows[i].year][s]} :
                   CASE variant = "maxgust" ->
                          Rows[i].cells[s].DIR # NA <=> rec.dirCount > 0
                     [] variant = "mean" ->
                          /\ Rows[i].cells[s].WSPD # NA <=> rec.WSPD_count > 0
                          /\ Rows[i].cells[s].GST # NA <=> rec.GST_count > 0
                     [] variant = "stream" ->
                          /\ Rows[i].cells[s].WSPD # NA => rec.WSPD_count > 0
                          /\ Rows[i].cells[s].GST # NA => rec.GST_count > 0

\* C14: no count ever decreases, a sum changes only together with its count
\* (one more for each value added), and at the report an average is not null
\* if and only if its count is positive.
C14_AccumulatorInvariant == [][CountsAndSums]_vars /\ []AveragesDefined

\* a report with a bucket of two rows and a bucket of none
C14_Witness ==
    /\ variant = "mean"
    /\ pc = "done"
    /\ FirstYear \in DOMAIN seasonalData
    /\ seasonalData[FirstYear]["Winter"].WSPD_count = 2
    /\ seasonalData[FirstYear]["Summer"].WSPD_count = 0
    /\ Rows[1].cells["Winter"].WSPD # NA
    /\ Rows[1].cells["Summer"].WSPD = NA

\* C15: in the per-year rows and the multi-year line of every seasonal script
\* a cell shows N/A if and only if its count is zero.
C15_NAIffZeroCount ==
    (pc = "done" /\ variant \notin PercentileVariants) =>
       \A s \in SeasonNames :
          /\ IF variant = "maxgust"
             THEN /\ MultiYearCells[s].DIR = NA <=> report.totals[s].dirCount = 0
                  /\ MultiYearCells[s].GST = NA <=> report.totals[s].gstMaxCount = 0
             ELSE /\ MultiYearCells[s].WSPD = NA <=> report.totals[s].WSPD_count = 0
                  /\ MultiYearCells[s].GST = NA <=> report.totals[s].GST_count = 0
          /\ \A i \in 1 .. Len(Rows) :
                \E rec \in {seasonalData[Rows[i].year][s]} :
                   IF variant = "maxgust"
                   THEN /\ Rows[i].cells[s].DIR = NA <=> rec.dirCount = 0
                        /\ Rows[i].cells[s].GST = NA <=> rec.dirCount = 0
                   ELSE /\ Rows[i].cells[s].WSPD = NA <=> rec.WSPD_count = 0
                        /\ Rows[i].cells[s].GST = NA <=> rec.GST_count = 0

\* a line that is no row: empty, a comment, or fewer than 8 tokens
NoRow(line) == line = <<>> \/ line[1][1] = "#" \/ Len(line) < MinColumns

\* a row cut down to its month, direction, wind speed and gust: the other
\* tokens are replaced by 0 and the tokens after the gust are cut off
Essential(line) ==
    <<Digits(0), line[2], Digits(0), Digits(0), Digits(0), line[6], line[7], line[8]>>

\* the rows of a text, each cut down to what is read
EssentialRows(text) ==
    LET rows == SelectSeq(text, LAMBDA line : ~NoRow(line))
    IN  [i \in 1 .. Len(rows) |-> Essential(rows[i])]

\* parsing a text changes the accumulators as parsing its rows, cut down to
\* the four tokens, does; a text without a row changes none
OnlyRowsAndFourTokens ==
    ParsesText =>
       \E text \in {TextOf(resp, route'.how)} :
       \E o \in {parseFileAsText(variant,
                                 ParseState(seasonalData, validGusts, audit),
                                 EssentialRows(text), year)} :
           /\ seasonalData' = o.sd
           /\ validGusts' = o.vg
           /\ audit' = o.au
           /\ pc' # "crashed" =>
                 route'.skipped = Len(SelectSeq(text, NoRow))
           /\ (\A i \in 1 .. Len(text) : NoRow(text[i])) =>
                 /\ validGusts' = validGusts
                 /\ audit' = audit
                 /\ \A y \in DOMAIN seasonalData' : seasonalData'[y] = Before(y)

\* C16: a line that is empty, begins with '#' or has fewer than 8 tokens
\* changes no accumulator; of the other lines only the tokens 1, 5, 6 and 7
\* (month, direction, wind speed, gust) matter, and the tokens after index 7
\* are ignored.
C16_SkippedLinesAndUnusedTokens == [][OnlyRowsAndFourTokens]_vars

\* a text of three lines was parsed: two were skipped, one row was folded
C16_Witness ==
    /\ variant = "mean"
    /\ pool = "skip"
    /\ pc = "loop"
    /\ route.how = "gunzip"
    /\ route.skipped = 2
    /\ served = 3
    /\ year = FirstYear + 1
    /\ BagCardinality(audit) = 2

\* the token is a number: an optional sign and digits
IsNumber(tok) ==
    /\ tok # <<>>
    /\ \E from \in {IF tok[1] \in {"-", "+"} THEN 2 ELSE 1} :
          /\ from <= Len(tok)
          /\ \A i \in from .. Len(tok) : tok[i] \in DigitChars

\* the documented default of the tolerance
DefaultTolerance == Num(IF variant = "ppercentile" THEN DefaultRangeParam ELSE DefaultRange)

\* C17: the tolerance and the percentile in effect are the command-line
\* argument whenever a number is given, and the default (tolerance 30 in
\* index.js, 15 in part_000; percentile 1) when the argument is missing.
C17_ArgumentOrDefault ==
    (pc = "loop" /\ probe.op = "argv") =>
       /\ IsNumber(probe.argv.range) => directionRange = parseFloat(probe.argv.range)
       /\ IsNumber(probe.argv.pct) => percentileValue = parseFloat(probe.argv.pct)
       /\ probe.argv.range = Undefined => directionRange = DefaultTolerance
       /\ probe.argv.pct = Undefined => percentileValue = Num(DefaultPercentile)

\* the years the server did not answer with status 200 (the scripts that test
\* the status print a notice for each)
SkippedYears == {Printed("skip")[i].year : i \in 1 .. Len(Printed("skip"))}

\* the position in the report of its only line of kind t
PositionOf(t) == CHOOSE i \in 1 .. Len(out) : out[i].t = t

\* C18: after the loop the per-year table has exactly one row for every year
\* whose fetch succeeded, also for a year without a valid row, in ascending
\* order of the years, and the multi-year table comes after all the rows.
C18_OneRowPerFetchedYear ==
    (pc = "done" /\ variant \notin PercentileVariants) =>
       /\ [i \in 1 .. Len(Rows) |-> Rows[i].year] = Ascending(Years \ SkippedYears)
       /\ \A i \in 1 .. Len(out) :
             out[i].t = "row" =>
                /\ PositionOf("per-year") < i
                /\ i < PositionOf("multi-year")
       /\ PositionOf("multi-year") = Len(out) - 1
       /\ out[Len(out)].t = "multi"

\* the elements of a page that carry an owner name, in page order
OwnerSpans(html) ==
    SelectSeq(html, LAMBDA e : /\ e.label \in OwnerLabels
                               /\ e.content # <<>>
                               /\ \A i \in DOMAIN e.content : e.content[i] \notin Tags)

MatchedNames(html) ==
    [k \in 1 .. Len(OwnerSpans(html)) |-> trim(OwnerSpans(html)[k].content)]

RECURSIVE CommaJoined(_)
CommaJoined(names) ==
    IF Len(names) = 0 THEN <<>>
    ELSE IF Len(names) = 1 THEN names[1]
    ELSE CommaJoined(SubSeq(names, 1, Len(names) - 1))
         \o <<",", " ">> \o names[Len(names)]

HasAddress(html) == \E i \in DOMAIN html : html[i].label = AddressLabel

\* the URLs among the first n whose page was fetched and read, in input order
ProcessedUrls(n) ==
    Ascending({i \in 1 .. n : probe.answers[i].kind = "page"})

RejectedUrls(n) ==
    Ascending({i \in 1 .. n : probe.answers[i].kind = "rejected"})

\* the loop has taken every URL so far, whatever the earlier ones answered,
\* each rejection was caught and logged, and the file holds what was gathered
LoopGoesOn ==
    /\ Len(out) >= probe.i - 1
    /\ \A i \in 1 .. probe.i - 1 : out[i] = [t |-> "processing", url |-> i]
    /\ [k \in 1 .. Len(probe.errors) |-> probe.errors[k].url]
          = RejectedUrls(probe.i - 1)
    /\ Len(probe.results) = Len(ProcessedUrls(probe.i - 1))
    /\ pc = "done" => /\ probe.i = Len(probe.answers) + 1
                      /\ probe.file = probe.results

PageOfRecord(k) == probe.answers[ProcessedUrls(probe.i - 1)[k]].html

AddressAsClaimed(k) ==
    /\ ~HasAddress(PageOfRecord(k)) => probe.results[k].mailingAddress = NotFound
    /\ HasAddress(PageOfRecord(k)) => probe.results[k].mailingAddress # NotFound

UrlAsWritten(k) ==
    variant = "urls" => probe.results[k].url = ProcessedUrls(probe.i - 1)[k]

\* C19 (as stated): the owner is the comma-joined list of the matched names,
\* or 'Not found' when no name matched; the address is 'Not found' when the
\* address span is absent; a rejected URL is caught, adds no record and does
\* not stop the loop; one record per processed URL, in input order.
C19_OwnerJoinedOrNotFound ==
    probe.op = "scrape" =>
       /\ LoopGoesOn
       /\ \A k \in 1 .. Len(probe.results) :
             /\ UrlAsWritten(k)
             /\ AddressAsClaimed(k)
             /\ probe.results[k].owner =
                   IF MatchedNames(PageOfRecord(k)) = <<>> THEN NotFound
                   ELSE CommaJoined(MatchedNames(PageOfRecord(k)))

\* C19 (amended): as above, but the owner is 'Not found' whenever the joined
\* list is the empty string, which is also the case when the only matched
\* names are blank.
C19_OwnerJoinedOrEmpty ==
    probe.op = "scrape" =>
       /\ LoopGoesOn
       /\ \A k \in 1 .. Len(probe.results) :
             /\ UrlAsWritten(k)
             /\ AddressAsClaimed(k)
             /\ probe.results[k].owner =
                   IF CommaJoined(MatchedNames(PageOfRecord(k))) = <<>>
                   THEN NotFound
                   ELSE CommaJoined(MatchedNames(PageOfRecord(k)))

\* a rejected first URL, then a page with two owners: one record is written
C19_Witness ==
    /\ probe.op = "scrape"
    /\ pc = "done"
    /\ Len(probe.answers) = 2
    /\ probe.answers[1].kind = "rejected"
    /\ probe.answers[2].kind = "page"
    /\ Len(probe.file) = 1
    /\ probe.file[1].owner = <<"B", ",", " ", "A">>
    /\ probe.file[1].mailingAddress = <<>>

\* a row of which exactly one of the two required fields passes: wind speed
\* and gust in the seasonal-mean scripts, direction and gust in the max-gust one
HalfValid(v, line) ==
    /\ ~SkipLine(line)
    /\ Len(line) >= MinColumns
    /\ IF v \in MeanVariants
       THEN Within(parseFloat(line[7]), MaxSpeed)
               # Within(parseFloat(line[8]), MaxSpeed)
       ELSE Within(parseFloat(line[6]), MaxDirection)
               # Within(parseFloat(line[8]), MaxSpeed)

\* no bucket holds one half of a row
WholeRowsOnly ==
    variant \notin PercentileVariants =>
       \A y \in DOMAIN seasonalData, s \in SeasonNames :
          IF variant = "maxgust"
          THEN seasonalData[y][s].gstMax = NegInf <=> seasonalData[y][s].dirCount = 0
          ELSE seasonalData[y][s].WSPD_count = seasonalData[y][s].GST_count

\* parsing a text leaves the accumulators as parsing it without its half-valid
\* rows does, and the half-valid rows are among the rows dropped
HalfValidRowsLeaveNoTrace ==
    (ParsesText /\ variant \notin PercentileVariants) =>
       \E text \in {TextOf(resp, route'.how)} :
       \E whole \in {SelectSeq(text, LAMBDA line : ~HalfValid(variant, line))} :
       \E o \in {parseFileAsText(variant,
                                 ParseState(seasonalData, validGusts, audit),
                                 whole, year)} :
           /\ seasonalData' = o.sd
           /\ audit' = o.au
           /\ pc' # "crashed" => route'.dropped - o.dropped = Len(text) - Len(whole)

\* C20: a rejected row is dropped as a whole: a row with one valid and one
\* invalid required field changes no accumulator, so that WSPD_count =
\* GST_count in every bucket of the seasonal-mean scripts, and gstMax is
\* negative infinity exactly when dirCount = 0 in the max-gust script.
C20_RowDroppedWhole == []WholeRowsOnly /\ [][HalfValidRowsLeaveNoTrace]_vars

\* a text of a valid row, a row with a gust above 90 and a row with a wind
\* speed above 90 was parsed: one row was counted, in both fields
C20_Witness ==
    /\ variant = "mean"
    /\ pool = "high"
    /\ pc = "loop"
    /\ year = FirstYear + 1
    /\ served = 3
    /\ route.dropped = 2
    /\ seasonalData[FirstYear]["Winter"].WSPD_count = 1
    /\ seasonalData[FirstYear]["Winter"].GST_count = 1

\* the accumulators of the one sequential pass over the years in ascending
\* order
SequentialPass ==
    FoldYears(variant, ParseState(<<>>, <<>>, EmptyBag), probe.texts, FirstYear)

\* the accumulators of year y folded on its own
FoldedAlone(y) ==
    parseFileAsText(variant, ParseState(<<>>, <<>>, EmptyBag), probe.texts[y], y)

RECURSIVE GustsFrom(_)
\* the gust lists of the years from y on, one after the other
GustsFrom(y) ==
    IF y > LastYear THEN <<>> ELSE FoldedAlone(y).vg \o GustsFrom(y + 1)

\* the partial accumulators of the years, merged: every year's record from
\* its own fold, and the gust lists put together
MergedData ==
    [y \in {z \in Years : z \in DOMAIN FoldedAlone(z).sd} |-> FoldedAlone(y).sd[y]]

SameRollup(r) == out = r.printed /\ report = r.locals

\* C21: whatever the order in which the years were folded, the run ends as
\* the pass in ascending order does, and its rollup (seasonal means, maximum
\* gusts and mean directions, top-percentile average) is the rollup of that
\* pass and the rollup of the merged accumulators of the years folded alone.
C21_OrderIndependentRollup ==
    probe.op = "order" =>
       /\ pc = "crashed" => SequentialPass.thrown
       /\ pc = "done" =>
             /\ ~SequentialPass.thrown
             /\ SameRollup(ReportOf(variant, SequentialPass.sd, SequentialPass.vg,
                                    percentileValue))
             /\ SameRollup(ReportOf(variant, MergedData, GustsFrom(FirstYear),
                                    percentileValue))

\* a percentile run that took a later year before an earlier one with other
\* gusts and averaged a proper part of the list
C21_Witness ==
    /\ probe.op = "order"
    /\ pc = "done"
    /\ variant = "percentile"
    /\ probe.folded[1] > probe.folded[2]
    /\ FoldedAlone(probe.folded[1]).vg # FoldedAlone(probe.folded[2]).vg
    /\ FoldedAlone(probe.folded[2]).vg # <<>>
    /\ report.kind = "percentile"
    /\ report.cutoffIndex >= 1
    /\ Len(report.subset) < Len(validGusts)

CommasUpTo(line, i) == Cardinality({j \in 1 .. i : line[j] = Comma})

\* the position of the n-th comma of a line, or one past its end
CommaAt(line, n) ==
    IF CommasUpTo(line, Len(line)) < n THEN Len(line) + 1
    ELSE CHOOSE i \in 1 .. Len(line) : line[i] = Comma /\ CommasUpTo(line, i) = n

\* the fifth comma-separated field of a line that has one
HasFifthField(line) == CommasUpTo(line, Len(line)) >= 4
FifthField(line) == SubSeq(line, CommaAt(line, 4) + 1, CommaAt(line, 5) - 1)

\* the non-empty lines of the input whose fifth field is the description
KeptLines(lines, d) ==
    SelectSeq(lines, LAMBDA l : l # <<>> /\ HasFifthField(l) /\ FifthField(l) = d)

\* line l with its first field replaced by k
Numbered(l, k) == Digits(k) \o SubSeq(l, CommaAt(l, 1), Len(l))

RECURSIVE LinesFrom(_, _)
\* the lines from position k on, numbered, one per line
LinesFrom(kept, k) ==
    IF k > Len(kept) THEN <<>>
    ELSE Numbered(kept[k], k) \o (IF k < Len(kept) THEN <<Lf>> ELSE <<>>)
         \o LinesFrom(kept, k + 1)

\* the run filters and renumbers the file; a second run leaves it as it is
FiltersAndRenumbers ==
    /\ probe'.exit = 0
    /\ probe.runs = 0 => probe'.file = LinesFrom(KeptLines(probe.lines, probe.desc.s), 1)
    /\ probe.runs >= 1 => probe'.file = probe.file

\* the run ends with an error and has neither read nor written the file
ExitsUntouched ==
    /\ probe'.exit = 1
    /\ out' = Append(out, [t |-> "usage"])
    /\ probe'.file = probe.file
    /\ probe'.reads = probe.reads
    /\ probe'.writes = probe.writes

\* C22 (as stated): with a description argument the rewritten file holds
\* exactly the non-empty lines whose fifth field equals it, in their order,
\* numbered 1..k in the first field and otherwise unchanged, and a second run
\* changes nothing; without the argument the run exits with an error before
\* it reads or writes the file.
C22_FilterWhenGiven ==
    [][probe.op = "txt" =>
          IF probe.desc = NoArgument THEN ExitsUntouched
          ELSE FiltersAndRenumbers]_vars

\* C22 (amended): as above for a description that is not the empty string;
\* the empty string is treated as no argument.
C22_FilterWhenNonEmpty ==
    [][probe.op = "txt" =>
          IF probe.desc = NoArgument \/ probe.desc = Argument(<<>>)
          THEN ExitsUntouched
          ELSE FiltersAndRenumbers]_vars

\* two runs on a file of a ROCK line between two TREE lines, the second of
\* six fields: the TREE lines are left, numbered 1 and 2
C22_Witness ==
    /\ probe.op = "txt"
    /\ probe.desc = Argument(<<"TREE">>)
    /\ probe.runs = 2
    /\ probe.writes = 2
    /\ Len(probe.lines) = 3
    /\ probe.lines[2] = <<"8", Comma, "N", Comma, "E", Comma, "Z", Comma, "ROCK">>
    /\ probe.file = <<"1", Comma, "N", Comma, "E", Comma, "Z", Comma, "TREE", Lf,
                      "2", Comma, "N", Comma, "E", Comma, "Z", Comma, "TREE",
                      Comma, "x">>

====
